---- MODULE Spec2Model ----
(***************************************************************************)
(* A model of the brute-decipher toolkit: the orchestrator loop of         *)
(* brute_decipher.main, the ranking / dedup pipeline (dedupe_and_rank,     *)
(* bucketing, cap_per_algo, ensure_each_algo_top1_present, the truncation   *)
(* of print_candidates) and the budgeted run loops of the strategies.      *)
(***************************************************************************)
EXTENDS Integers, Sequences, FiniteSets, TLC

VARIABLES
    pc,            \* position of main: "loop", "rank", "ranked", "reranked"
    idx,           \* index in the active list of the module the loop is at
    results,       \* main's results list
    clock,         \* last value time.monotonic() returned
    started_all,   \* main's started_all
    last_elapsed,  \* elapsed run time read by the last global budget check (-1: none yet)
    launched,      \* sequence of the modules whose run() was called
    faulted,       \* modules whose run() raised
    skipped,       \* modules whose import failed
    cfg,           \* the global configuration read by main
    ranked_all, buckets, capped, ranked_final,   \* main's locals after the loop
    shown,         \* the candidates print_candidates enumerates: cands[:top_k]
    rerun,         \* the pipeline applied to its own output
    strat,         \* the module whose run() is followed step by step
    rcfg,          \* the config dict handed to that run()
    ciphertext,    \* the ciphertext handed to that run(), as code points
    script,        \* base64: what the decoders yield for each string run() tries
    run_pc,        \* position of run(): "idle", "call", a loop, "returned", "raised"
    started,       \* run()'s started
    run_results,   \* run()'s results list
    it,            \* index of the loop run() is in
    di,            \* base64: index of the decoder output try_decode_string is at
    timed_out,     \* a budget check of run() found the budget exceeded
    stage,         \* position of a single function call that is followed on its own
    arg,           \* the arguments of that call
    ret            \* what the call has computed so far

mainvars == <<pc, idx, results, started_all, last_elapsed, launched, faulted,
              skipped, cfg, ranked_all, buckets, capped, ranked_final, shown, rerun>>

runvars == <<strat, rcfg, ciphertext, script, run_pc, started, run_results, it, di, timed_out>>

callvars == <<stage, arg, ret>>

vars == <<pc, idx, results, clock, started_all, last_elapsed, launched, faulted,
          skipped, cfg, ranked_all, buckets, capped, ranked_final, shown, rerun,
          strat, rcfg, ciphertext, script, run_pc, started, run_results, it, di, timed_out,
          stage, arg, ret>>

-----------------------------------------------------------------------------
(* Bounds of the model *)

\* number of modules in the active list
MaxActive == 2
\* longest list one strategy run returns to the orchestrator
MaxOut == 2
\* most candidates the strategies of one run return together
MaxResults == 3
\* largest reading of the monotonic clock
MaxClock == 1
\* most outputs the decoders of base64 yield for one string
MaxDec == 1

\* the texts and the scores a candidate can carry
Texts == {"ta", "tb", "tc"}
Scores == {1, 2}

-----------------------------------------------------------------------------
(* Helpers *)

Min(a, b) == IF a < b THEN a ELSE b
Max(a, b) == IF a > b THEN a ELSE b

Range(s) == {s[i] : i \in 1..Len(s)}

\* the sequences over S of length at most n
SeqsUpTo(S, n) == UNION {[1..k -> S] : k \in 0..n}

-----------------------------------------------------------------------------
(* The modules and the algo name each one writes into its candidates *)

AllModules == <<"rot13", "super_rot", "base64", "base45", "base58", "base91">>

AlgoOf(name) ==
    CASE name = "rot13" -> "rotN"
      [] name = "super_rot" -> "super_rot"
      [] name = "base64" -> "base"
      [] name = "base45" -> "base45"
      [] name = "base58" -> "base58"
      [] name = "base91" -> "base91"

Algos == {AlgoOf(AllModules[i]) : i \in 1..Len(AllModules)}

\* cfg["active_modules"]
Active == SubSeq(AllModules, 1, MaxActive)

\* Candidate(algo, params, text, score); id is the identity of the object
Candidate(id, algo, params, text, score) ==
    [id |-> id, algo |-> algo, params |-> params, text |-> text, score |-> score]

-----------------------------------------------------------------------------
(* modules/common.py: dedupe_and_rank *)

\* BestStep with >= for >: the last candidate seen wins a tie
BestStepLastSeen(best, c) ==
    IF \E j \in 1..Len(best) : best[j].text = c.text
    THEN [j \in 1..Len(best) |->
            IF best[j].text = c.text /\ c.score >= best[j].score THEN c ELSE best[j]]
    ELSE Append(best, c)

\* one iteration of the loop over cands; best is the dict, in insertion order
BestStep(best, c) ==
    IF \E j \in 1..Len(best) : best[j].text = c.text
    THEN [j \in 1..Len(best) |->
            IF best[j].text = c.text /\ c.score > best[j].score THEN c ELSE best[j]]
    ELSE Append(best, c)

RECURSIVE BestFold(_, _, _)
BestFold(cands, i, best) ==
    IF i > Len(cands) THEN best
    ELSE BestFold(cands, i + 1, BestStep(best, cands[i]))

\* InsertDesc that places an element before the elements of equal score: a
\* descending sort that reverses ties
InsertDescBeforeTies(sorted, c) ==
    LET n == Cardinality({j \in 1..Len(sorted) : sorted[j].score > c.score})
    IN SubSeq(sorted, 1, n) \o <<c>> \o SubSeq(sorted, n + 1, Len(sorted))

\* sorted(..., key=score, reverse=True) is stable: an element goes after every
\* element already placed whose score is at least its own
InsertDesc(sorted, c) ==
    LET n == Cardinality({j \in 1..Len(sorted) : sorted[j].score >= c.score})
    IN SubSeq(sorted, 1, n) \o <<c>> \o SubSeq(sorted, n + 1, Len(sorted))

RECURSIVE SortFold(_, _, _)
SortFold(s, i, acc) ==
    IF i > Len(s) THEN acc ELSE SortFold(s, i + 1, InsertDesc(acc, s[i]))

\* no sort at all: the dict's values in insertion order
Unsorted(s) == s

SortedByScoreDesc(s) == SortFold(s, 1, <<>>)

dedupe_and_rank(cands) == SortedByScoreDesc(BestFold(cands, 1, <<>>))

-----------------------------------------------------------------------------
(* brute_decipher.py: ranking helpers *)

RECURSIVE UniqueFold(_, _, _, _)
UniqueFold(items, i, seen, out) ==
    IF i > Len(items) THEN out
    ELSE IF items[i].text \in seen
         THEN UniqueFold(items, i + 1, seen, out)
         ELSE UniqueFold(items, i + 1, seen \cup {items[i].text}, Append(out, items[i]))

unique_by_text(items) == UniqueFold(items, 1, {}, <<>>)

RECURSIVE CapFold(_, _, _, _, _)
CapFold(ranked, per_algo_cap, i, kept_per, out) ==
    IF i > Len(ranked) THEN out
    ELSE LET c == ranked[i]
             k == kept_per[c.algo]
         IN IF k < per_algo_cap
            THEN CapFold(ranked, per_algo_cap, i + 1,
                         [kept_per EXCEPT ![c.algo] = k + 1], Append(out, c))
            ELSE CapFold(ranked, per_algo_cap, i + 1, kept_per, out)

\* cap_per_algo with k <= per_algo_cap for k < per_algo_cap
cap_per_algo_off_by_one(ranked, per_algo_cap) ==
    CapFold(ranked, per_algo_cap + 1, 1, [a \in Algos |-> 0], <<>>)

cap_per_algo(ranked, per_algo_cap) ==
    CapFold(ranked, per_algo_cap, 1, [a \in Algos |-> 0], <<>>)

\* buckets.setdefault(c.algo, []).append(c); the dict is a sequence of
\* [algo, items] entries in insertion order
BucketStep(bs, c) ==
    IF \E j \in 1..Len(bs) : bs[j].algo = c.algo
    THEN [j \in 1..Len(bs) |->
            IF bs[j].algo = c.algo
            THEN [algo |-> bs[j].algo, items |-> Append(bs[j].items, c)]
            ELSE bs[j]]
    ELSE Append(bs, [algo |-> c.algo, items |-> <<c>>])

RECURSIVE BucketFold(_, _, _)
BucketFold(ranked, i, bs) ==
    IF i > Len(ranked) THEN bs
    ELSE BucketFold(ranked, i + 1, BucketStep(bs, ranked[i]))

MakeBuckets(ranked) == BucketFold(ranked, 1, <<>>)

\* seeds = [items[0] for items in buckets.values() if items]
RECURSIVE SeedsFold(_, _, _)
SeedsFold(bs, i, out) ==
    IF i > Len(bs) THEN out
    ELSE SeedsFold(bs, i + 1,
                   IF Len(bs[i].items) > 0 THEN Append(out, bs[i].items[1]) ELSE out)

\* seeds that take the whole of the first bucket, not its first item only
SeedsWholeFirstBucket(bs) ==
    IF Len(bs) = 0 THEN <<>>
    ELSE bs[1].items \o SeedsFold(SubSeq(bs, 2, Len(bs)), 1, <<>>)

Seeds(bs) == SeedsFold(bs, 1, <<>>)

ensure_each_algo_top1_present(bs, current) ==
    LET seeds == Seeds(bs)
        seed_ids == {seeds[j].id : j \in 1..Len(seeds)}
        IsRest(c) == c.id \notin seed_ids
        rest == SelectSeq(current, IsRest)
        seeds_sorted == SortedByScoreDesc(seeds)
    IN unique_by_text(seeds_sorted \o rest)

\* main, lines 138-142
CappedOf(ranked, per_algo_cap) ==
    IF per_algo_cap > 0 THEN cap_per_algo(ranked, per_algo_cap) ELSE ranked

\* main with the promotion step left out
NoPromotion(bs, cappedList, ensure_each_algo_top1) == cappedList

\* main, lines 145-149
RankedFinalOf(bs, cappedList, ensure_each_algo_top1) ==
    IF ensure_each_algo_top1 /\ Len(cappedList) > 0
    THEN ensure_each_algo_top1_present(bs, cappedList)
    ELSE cappedList

\* print_candidates: cands[:top_k]
Truncate(cands, top_k) ==
    IF top_k >= 0 THEN SubSeq(cands, 1, Min(top_k, Len(cands)))
    ELSE SubSeq(cands, 1, Max(0, Len(cands) + top_k))

\* the whole pipeline after the loop, as main and print_candidates apply it
Pipeline(cands, c) ==
    LET ra == dedupe_and_rank(cands)
        bs == MakeBuckets(ra)
        cp == CappedOf(ra, c.per_algo_cap)
        rf == RankedFinalOf(bs, cp, c.ensure_each_algo_top1)
    IN Truncate(rf, c.top_k)

-----------------------------------------------------------------------------
(* brute_decipher.py: main *)

\* the global configurations the model draws from
PerAlgoCaps == {0, 1}
TopKs == {2, 10}
TotalBudgets == {0}

Configs == [per_algo_cap : PerAlgoCaps, ensure_each_algo_top1 : BOOLEAN,
            top_k : TopKs, total_budget_s : TotalBudgets]

\* --top is any int and the configured top_k goes through int() only: a negative
\* display count reaches cands[:top_k] as it is
NegativeTopKs == {-1}

\* the configurations the pipeline after the loop is followed with
RankConfigs == [per_algo_cap : PerAlgoCaps, ensure_each_algo_top1 : BOOLEAN,
                top_k : TopKs \cup NegativeTopKs, total_budget_s : TotalBudgets]

\* the lists a strategy run can hand back: its candidates in emission order
Outputs == SeqsUpTo(Texts \X Scores, MaxOut)

\* the Candidate objects of one returned list; ids continue after those in results
Emit(name, out, base) ==
    [j \in 1..Len(out) |-> Candidate(base + j, AlgoOf(name), j, out[j][1], out[j][2])]

\* results.extend(out)
Extend(res, name, out) == res \o Emit(name, out, Len(res))

\* an error that throws away what was collected
AfterRaiseDropsAll(res) == <<>>

\* results after module.run raised: the except clause only prints
AfterRaise(res) == res

\* a budget check that never breaks the loop
BudgetNeverExceeded(elapsed, total_budget_s) == FALSE

\* time.monotonic() - started_all > total_budget_s
BudgetExceeded(elapsed, total_budget_s) == elapsed > total_budget_s

\* where the loop goes after the budget check of iteration i
AfterCheck(i, elapsed, total_budget_s) ==
    IF BudgetExceeded(elapsed, total_budget_s) THEN "rank"
    ELSE IF i + 1 > Len(Active) THEN "rank" ELSE "loop"

\* no run() is followed step by step
NoRun ==
    /\ strat = "none"
    /\ rcfg = [budget_s |-> 0]
    /\ ciphertext = <<>>
    /\ script = <<>>
    /\ run_pc = "idle"
    /\ started = 0
    /\ run_results = <<>>
    /\ it = 0
    /\ di = 0
    /\ timed_out = FALSE

\* no single function call is followed on its own
NoCall ==
    /\ stage = "idle"
    /\ arg = <<>>
    /\ ret = <<>>

Init ==
    /\ pc = "loop"
    /\ idx = 1
    /\ results = <<>>
    /\ clock = 0
    /\ started_all = 0
    /\ last_elapsed = -1
    /\ launched = <<>>
    /\ faulted = {}
    /\ skipped = {}
    /\ cfg \in Configs
    /\ ranked_all = <<>>
    /\ buckets = <<>>
    /\ capped = <<>>
    /\ ranked_final = <<>>
    /\ shown = <<>>
    /\ rerun = <<>>
    /\ NoRun
    /\ NoCall

UnchangedRank == UNCHANGED <<ranked_all, buckets, capped, ranked_final, shown, rerun>>

\* importlib.import_module fails: print, continue (the budget check is skipped)
ImportFails ==
    /\ pc = "loop"
    /\ idx <= Len(Active)
    /\ skipped' = skipped \cup {Active[idx]}
    /\ idx' = idx + 1
    /\ pc' = IF idx + 1 > Len(Active) THEN "rank" ELSE "loop"
    /\ UNCHANGED <<results, clock, started_all, last_elapsed, launched, faulted, cfg>>
    /\ UnchangedRank
    /\ UNCHANGED runvars
    /\ UNCHANGED callvars

\* module.run returns a list: results.extend(out), then the budget check
RunReturns ==
    /\ pc = "loop"
    /\ idx <= Len(Active)
    /\ \E out \in Outputs, t \in clock..MaxClock :
        /\ Len(results) + Len(out) <= MaxResults
        /\ results' = Extend(results, Active[idx], out)
        /\ clock' = t
        /\ last_elapsed' = t - started_all
        /\ pc' = AfterCheck(idx, t - started_all, cfg.total_budget_s)
    /\ launched' = Append(launched, Active[idx])
    /\ idx' = idx + 1
    /\ UNCHANGED <<started_all, faulted, skipped, cfg>>
    /\ UnchangedRank
    /\ UNCHANGED runvars
    /\ UNCHANGED callvars

\* module.run raises: the except clause prints, then the budget check
RunRaises ==
    /\ pc = "loop"
    /\ idx <= Len(Active)
    /\ \E t \in clock..MaxClock :
        /\ clock' = t
        /\ last_elapsed' = t - started_all
        /\ pc' = AfterCheck(idx, t - started_all, cfg.total_budget_s)
    /\ results' = AfterRaise(results)
    /\ launched' = Append(launched, Active[idx])
    /\ faulted' = faulted \cup {Active[idx]}
    /\ idx' = idx + 1
    /\ UNCHANGED <<started_all, skipped, cfg>>
    /\ UnchangedRank
    /\ UNCHANGED runvars
    /\ UNCHANGED callvars

\* main after the loop, lines 130-151
Rank ==
    /\ pc = "rank"
    /\ LET ra == dedupe_and_rank(results)
           bs == MakeBuckets(ra)
           cp == CappedOf(ra, cfg.per_algo_cap)
           rf == RankedFinalOf(bs, cp, cfg.ensure_each_algo_top1)
       IN /\ ranked_all' = ra
          /\ buckets' = bs
          /\ capped' = cp
          /\ ranked_final' = rf
          /\ shown' = Truncate(rf, cfg.top_k)
    /\ pc' = "ranked"
    /\ UNCHANGED <<idx, results, clock, started_all, last_elapsed, launched, faulted,
                   skipped, cfg, rerun>>
    /\ UNCHANGED runvars
    /\ UNCHANGED callvars

\* the pipeline run a second time, on the list the first run produced
Rerank ==
    /\ pc = "ranked"
    /\ rerun' = Pipeline(shown, cfg)
    /\ pc' = "reranked"
    /\ UNCHANGED <<idx, results, clock, started_all, last_elapsed, launched, faulted,
                   skipped, cfg, ranked_all, buckets, capped, ranked_final, shown>>
    /\ UNCHANGED runvars
    /\ UNCHANGED callvars

\* main runs the pipeline once; the second pass is followed under SpecRank
Next == ImportFails \/ RunReturns \/ RunRaises \/ Rank

Spec == Init /\ [][Next]_vars

-----------------------------------------------------------------------------
(* brute_decipher.py: main after the loop and print_candidates, followed from *)
(* every list the loop can have collected, with every display count          *)

\* the results lists the loop ends with: each active module's run has
\* returned a list (an empty one included) and results.extend has taken it
RECURSIVE CollectedFrom(_, _)
CollectedFrom(i, res) ==
    IF i > Len(Active) THEN {res}
    ELSE UNION {CollectedFrom(i + 1, Extend(res, Active[i], out)) :
                  out \in {o \in Outputs : Len(res) + Len(o) <= MaxResults}}

Collected == CollectedFrom(1, <<>>)

\* main at line 130: every module was launched and returned within the budget
InitRank ==
    /\ pc = "rank"
    /\ idx = Len(Active) + 1
    /\ results \in Collected
    /\ clock = 0
    /\ started_all = 0
    /\ last_elapsed = 0
    /\ launched = Active
    /\ faulted = {}
    /\ skipped = {}
    /\ cfg \in RankConfigs
    /\ ranked_all = <<>>
    /\ buckets = <<>>
    /\ capped = <<>>
    /\ ranked_final = <<>>
    /\ shown = <<>>
    /\ rerun = <<>>
    /\ NoRun
    /\ NoCall

NextRank == Rank \/ Rerank

SpecRank == InitRank /\ [][NextRank]_vars

-----------------------------------------------------------------------------
(* modules/common.py: shift_char; characters are code points *)

LOW == [i \in 1..26 |-> 96 + i]
UPP == [i \in 1..26 |-> 64 + i]

\* str.islower() and str.isupper() on the characters the model uses:
\* the ASCII letters, 233 (e-acute, lower case) and 201 (E-acute, upper case)
islower(ch) == ch \in (97..122) \cup {233}
isupper(ch) == ch \in (65..90) \cup {201}

\* stands for the ValueError str.index raises; no code point is negative
ValueError == -1

\* alpha.index(ch)
IndexOf(alpha, ch) ==
    IF \E i \in 1..Len(alpha) : alpha[i] = ch
    THEN (CHOOSE i \in 1..Len(alpha) : alpha[i] = ch) - 1
    ELSE ValueError

shift_char(ch, k) ==
    IF islower(ch)
    THEN IF IndexOf(LOW, ch) = ValueError THEN ValueError
         ELSE LOW[((IndexOf(LOW, ch) + k) % 26) + 1]
    ELSE IF isupper(ch)
    THEN IF IndexOf(UPP, ch) = ValueError THEN ValueError
         ELSE UPP[((IndexOf(UPP, ch) + k) % 26) + 1]
    ELSE ch

\* the call that built t raised: one of its shift_char calls did
Raised(t) == \E i \in 1..Len(t) : t[i] = ValueError

\* modules/rot13.py
_rotN(s, k) == [i \in 1..Len(s) |-> shift_char(s[i], 0 - k)]

\* modules/super_rot.py
_progressive_transform(s, start, step, mode, order) ==
    LET n == Len(s)
        sign == IF mode = "decode" THEN 0 - 1 ELSE 1
    IN [p \in 1..n |->
           LET i == p - 1
               j == IF order = "LTR" THEN i ELSE n - 1 - i
               k == (start + j * step) % 26
           IN shift_char(s[p], sign * k)]

-----------------------------------------------------------------------------
(* The run() of one strategy, followed from its call to its return *)

\* the candidate a run appends; its score is a function of text and params
\* that no branch of run() reads
Found(algo, params, text) == [algo |-> algo, params |-> params, text |-> text]

\* budget_s: zero, and one no reading of the clock exceeds
Budgets == {0, MaxClock}

\* "aZ!" and "e-acute"
Ciphertexts == {<<97, 90, 33>>, <<233>>}

IsPrefix(s, t) == Len(s) <= Len(t) /\ SubSeq(t, 1, Len(s)) = s

\* ---- modules/rot13.py: run ----

\* n is "all" or an int
RotNConfigs ==
    [n : {[all |-> TRUE, n |-> 0], [all |-> FALSE, n |-> 13], [all |-> FALSE, n |-> 27]},
     budget_s : Budgets]

\* range(26)
RotNKeys == 26

rot13_time_up(now, start, budget_s) == now - start > budget_s

RotNFound(ct, k) == Found("rotN", k, _rotN(ct, k))

\* ---- modules/super_rot.py: run ----

SuperRotConfigs ==
    [start_keys : {<<>>, <<9>>, <<0, 25>>},
     max_abs_step : {0 - 1, 1},
     modes : {<<>>, <<"decode">>},
     orders : {<<"LTR">>, <<"LTR", "RTL">>},
     budget_s : Budgets]

\* int(config.get("max_abs_step", 5)) or 5
MaxAbsStepOf(c) == IF c.max_abs_step = 0 THEN 5 ELSE c.max_abs_step
\* config.get("modes", [...]) or ["decode", "encode"]
ModesOf(c) == IF c.modes = <<>> THEN <<"decode", "encode">> ELSE c.modes
OrdersOf(c) == IF c.orders = <<>> THEN <<"LTR", "RTL">> ELSE c.orders

\* list(range(-N, 0)) + list(range(1, N + 1))
StepsOf(c) ==
    LET N == MaxAbsStepOf(c)
    IN IF N <= 0 THEN <<>>
       ELSE [i \in 1..(2 * N) |-> IF i <= N THEN i - N - 1 ELSE i - N]

\* the iterations of the four nested loops, in the order the loops make them
Combos(c) ==
    LET sk == c.start_keys
        st == StepsOf(c)
        os == OrdersOf(c)
        ms == ModesOf(c)
        total == Len(sk) * Len(st) * Len(os) * Len(ms)
    IN [i \in 1..total |->
           LET j == i - 1
           IN [start_key |-> sk[(j \div (Len(ms) * Len(os) * Len(st))) + 1],
               step      |-> st[((j \div (Len(ms) * Len(os))) % Len(st)) + 1],
               order     |-> os[((j \div Len(ms)) % Len(os)) + 1],
               mode      |-> ms[(j % Len(ms)) + 1]]]

super_rot_time_up(now, start, budget_s) == now - start > budget_s

\* params is the text "start=.. step=.. order/mode", with "fallback" in front
\* for the candidate of the fallback
ParamsOf(cb, fallback) ==
    [fallback |-> fallback, start_key |-> cb.start_key, step |-> cb.step,
     order |-> cb.order, mode |-> cb.mode]

SuperRotFound(ct, cb) ==
    Found("super_rot", ParamsOf(cb, FALSE),
          _progressive_transform(ct, cb.start_key, cb.step, cb.mode, cb.order))

\* the classic lane of the fallback
FallbackCombo == [start_key |-> 9, step |-> 1, order |-> "LTR", mode |-> "decode"]
SuperRotFallback(ct) ==
    Found("super_rot", ParamsOf(FallbackCombo, TRUE),
          _progressive_transform(ct, FallbackCombo.start_key, FallbackCombo.step,
                                 FallbackCombo.mode, FallbackCombo.order))

\* a timeout that falls through to the fallback instead of returning
SuperRotFallsThrough(res, ct) == IF res = <<>> THEN <<SuperRotFallback(ct)>> ELSE res

\* what run returns when the check in the sweep finds the budget exceeded
SuperRotOnTimeUp(res, ct) == res

\* ---- modules/base64.py: run, with aggressive_salvage and scan_substrings off ----

NestedPasses == {0, 1}
\* how many candidates the nested pass adds for one plain text
NestedYields == {0, 1}
\* how many distinct strings _repair_variants returns
RawCounts == {1, 2}

Base64Configs ==
    [nested_passes : NestedPasses, budget_s : Budgets,
     aggressive_salvage : {FALSE}, scan_substrings : {FALSE}]

\* one output of _decode_once(s): whether _to_text accepts it, and how many
\* candidates the nested pass then adds; ny is that number for the plain texts
\* of one ciphertext
DecodeEntries(ny) == {[plain |-> FALSE, nested |-> 0], [plain |-> TRUE, nested |-> ny]}

DecodeOuts(ny) == SeqsUpTo(DecodeEntries(ny), MaxDec)

\* a string of section (a): always tried
RawStrings(ny) == {[tag |-> "raw", tried |-> TRUE, outs |-> o] : o \in DecodeOuts(ny)}

\* a string of section (b): tried when long enough and new
KeepStrings(tag, ny) ==
    {[tag |-> tag, tried |-> FALSE, outs |-> <<>>]}
        \cup {[tag |-> tag, tried |-> TRUE, outs |-> o] : o \in DecodeOuts(ny)}

\* the strings run() goes through, in order, with what their decoding yields
ScriptsWith(ny) ==
    {raws \o <<ks, ku>> :
        raws \in UNION {[1..n -> RawStrings(ny)] : n \in RawCounts},
        ks \in KeepStrings("keep_std", ny),
        ku \in KeepStrings("keep_url", ny)}

Scripts(np) == UNION {ScriptsWith(ny) : ny \in (IF np > 0 THEN NestedYields ELSE {0})}

time_up(now, start, budget_s) == now - start > budget_s

\* the candidate of decoder output d of string i, and the j-th one of its nested pass
Base64Found(sc, i, d, j) == Found("base", <<sc[i].tag, d, j>>, <<i, d, j>>)

NestedFound(sc, i, d) ==
    [j \in 1..sc[i].outs[d].nested |-> Base64Found(sc, i, d, j)]

\* where run() is once try_decode_string is through with string i: at the
\* budget check of the next string of section (a), in the next string of
\* section (b) that is tried and has decoder outputs, or at its return
RECURSIVE AfterString(_, _)
AfterString(sc, i) ==
    IF i + 1 > Len(sc) THEN [run_pc |-> "returned", it |-> i, di |-> 0]
    ELSE IF sc[i + 1].tag = "raw" THEN [run_pc |-> "b64_raw", it |-> i + 1, di |-> 0]
    ELSE IF sc[i + 1].tried /\ Len(sc[i + 1].outs) > 0
         THEN [run_pc |-> "b64_decode", it |-> i + 1, di |-> 1]
    ELSE AfterString(sc, i + 1)

\* where run() is once decoder output d of string i is dealt with
AfterEntry(sc, i, d) ==
    IF d < Len(sc[i].outs) THEN [run_pc |-> "b64_decode", it |-> i, di |-> d + 1]
    ELSE AfterString(sc, i)

-----------------------------------------------------------------------------
(* The runs as state machines *)

Strategies == {"rot13", "super_rot", "base64"}

ConfigsOf(s) ==
    IF s = "rot13" THEN RotNConfigs
    ELSE IF s = "super_rot" THEN SuperRotConfigs
    ELSE Base64Configs

InitRun ==
    /\ pc = "loop"
    /\ idx = 1
    /\ results = <<>>
    /\ clock = 0
    /\ started_all = 0
    /\ last_elapsed = -1
    /\ launched = <<>>
    /\ faulted = {}
    /\ skipped = {}
    /\ cfg \in {c \in Configs : c.per_algo_cap = 1 /\ c.ensure_each_algo_top1 /\ c.top_k = 10}
    /\ ranked_all = <<>>
    /\ buckets = <<>>
    /\ capped = <<>>
    /\ ranked_final = <<>>
    /\ shown = <<>>
    /\ rerun = <<>>
    /\ strat \in Strategies
    /\ rcfg \in ConfigsOf(strat)
    /\ ciphertext \in (IF strat = "base64" THEN {<<97, 90, 33>>} ELSE Ciphertexts)
    /\ script \in (IF strat = "base64" THEN Scripts(rcfg.nested_passes) ELSE {<<>>})
    /\ run_pc = "call"
    /\ started = 0
    /\ run_results = <<>>
    /\ it = 0
    /\ di = 0
    /\ timed_out = FALSE
    /\ NoCall

\* rot13.run up to its loop; with an int n, the whole of it
RotNCall ==
    /\ strat = "rot13" /\ run_pc = "call"
    /\ \E t \in clock..MaxClock : clock' = t /\ started' = t
    /\ IF rcfg.n.all
       THEN run_pc' = "rotN_loop" /\ run_results' = <<>>
       ELSE LET c == RotNFound(ciphertext, rcfg.n.n % 26)
            IN IF Raised(c.text)
               THEN run_pc' = "raised" /\ run_results' = <<>>
               ELSE run_pc' = "returned" /\ run_results' = <<c>>
    /\ it' = 0
    /\ UNCHANGED <<strat, rcfg, ciphertext, script, di, timed_out>>
    /\ UNCHANGED mainvars
    /\ UNCHANGED callvars

\* one iteration of for k in range(26), k = it
RotNIter ==
    /\ strat = "rot13" /\ run_pc = "rotN_loop"
    /\ \E t \in clock..MaxClock :
        /\ clock' = t
        /\ IF rot13_time_up(t, started, rcfg.budget_s)
           THEN /\ timed_out' = TRUE
                /\ run_pc' = "returned"
                /\ UNCHANGED <<run_results, it>>
           ELSE LET c == RotNFound(ciphertext, it)
                IN IF Raised(c.text)
                   THEN run_pc' = "raised" /\ UNCHANGED <<run_results, it, timed_out>>
                   ELSE /\ run_results' = Append(run_results, c)
                        /\ it' = it + 1
                        /\ run_pc' = IF it + 1 = RotNKeys THEN "returned" ELSE "rotN_loop"
                        /\ UNCHANGED timed_out
    /\ UNCHANGED <<strat, rcfg, ciphertext, script, started, di>>
    /\ UNCHANGED mainvars
    /\ UNCHANGED callvars

\* super_rot.run up to its loops; with no iteration to make, the whole of it
SuperRotCall ==
    /\ strat = "super_rot" /\ run_pc = "call"
    /\ \E t \in clock..MaxClock : clock' = t /\ started' = t
    /\ IF Len(Combos(rcfg)) > 0
       THEN run_pc' = "sweep" /\ run_results' = <<>>
       ELSE LET c == SuperRotFallback(ciphertext)
            IN IF Raised(c.text)
               THEN run_pc' = "raised" /\ run_results' = <<>>
               ELSE run_pc' = "returned" /\ run_results' = <<c>>
    /\ it' = 1
    /\ UNCHANGED <<strat, rcfg, ciphertext, script, di, timed_out>>
    /\ UNCHANGED mainvars
    /\ UNCHANGED callvars

\* one iteration of the innermost loop, the it-th of the sweep
SuperRotIter ==
    /\ strat = "super_rot" /\ run_pc = "sweep"
    /\ \E t \in clock..MaxClock :
        /\ clock' = t
        /\ IF super_rot_time_up(t, started, rcfg.budget_s)
           THEN /\ timed_out' = TRUE
                /\ run_results' = SuperRotOnTimeUp(run_results, ciphertext)
                /\ run_pc' = "returned"
                /\ UNCHANGED it
           ELSE LET c == SuperRotFound(ciphertext, Combos(rcfg)[it])
                IN IF Raised(c.text)
                   THEN run_pc' = "raised" /\ UNCHANGED <<run_results, it, timed_out>>
                   ELSE /\ run_results' = Append(run_results, c)
                        /\ it' = it + 1
                        /\ run_pc' = IF it + 1 > Len(Combos(rcfg)) THEN "returned" ELSE "sweep"
                        /\ UNCHANGED timed_out
    /\ UNCHANGED <<strat, rcfg, ciphertext, script, started, di>>
    /\ UNCHANGED mainvars
    /\ UNCHANGED callvars

\* base64.run up to section (a)
Base64Call ==
    /\ strat = "base64" /\ run_pc = "call"
    /\ \E t \in clock..MaxClock : clock' = t /\ started' = t
    /\ run_pc' = "b64_raw"
    /\ run_results' = <<>>
    /\ it' = 1
    /\ di' = 0
    /\ UNCHANGED <<strat, rcfg, ciphertext, script, timed_out>>
    /\ UNCHANGED mainvars
    /\ UNCHANGED callvars

\* section (a): the budget check in front of string it, then try_decode_string
\* up to its own first budget check
Base64Raw ==
    /\ strat = "base64" /\ run_pc = "b64_raw"
    /\ \E t \in clock..MaxClock :
        /\ clock' = t
        /\ IF time_up(t, started, rcfg.budget_s)
           THEN /\ timed_out' = TRUE
                /\ run_pc' = "returned"
                /\ UNCHANGED <<it, di>>
           ELSE LET nxt == IF Len(script[it].outs) > 0
                           THEN [run_pc |-> "b64_decode", it |-> it, di |-> 1]
                           ELSE AfterString(script, it)
                IN /\ run_pc' = nxt.run_pc
                   /\ it' = nxt.it
                   /\ di' = nxt.di
                   /\ UNCHANGED timed_out
    /\ UNCHANGED <<strat, rcfg, ciphertext, script, started, run_results>>
    /\ UNCHANGED mainvars
    /\ UNCHANGED callvars

\* try_decode_string: the budget check in front of decoder output di of string
\* it, then the candidate of its plain text
Base64Decode ==
    /\ strat = "base64" /\ run_pc = "b64_decode"
    /\ \E t \in clock..MaxClock :
        /\ clock' = t
        /\ LET e == script[it].outs[di]
               nxt == IF time_up(t, started, rcfg.budget_s) THEN AfterString(script, it)
                      ELSE IF e.plain /\ rcfg.nested_passes > 0
                           THEN [run_pc |-> "b64_nested", it |-> it, di |-> di]
                      ELSE AfterEntry(script, it, di)
           IN /\ timed_out' = (timed_out \/ time_up(t, started, rcfg.budget_s))
              /\ run_results' = IF ~ time_up(t, started, rcfg.budget_s) /\ e.plain
                        THEN Append(run_results, Base64Found(script, it, di, 0))
                        ELSE run_results
              /\ run_pc' = nxt.run_pc
              /\ it' = nxt.it
              /\ di' = nxt.di
    /\ UNCHANGED <<strat, rcfg, ciphertext, script, started>>
    /\ UNCHANGED mainvars
    /\ UNCHANGED callvars

\* try_decode_string: the budget check of the nested pass, then its candidates
Base64Nested ==
    /\ strat = "base64" /\ run_pc = "b64_nested"
    /\ \E t \in clock..MaxClock :
        /\ clock' = t
        /\ LET nxt == IF time_up(t, started, rcfg.budget_s) THEN AfterString(script, it)
                      ELSE AfterEntry(script, it, di)
           IN /\ timed_out' = (timed_out \/ time_up(t, started, rcfg.budget_s))
              /\ run_results' = IF ~ time_up(t, started, rcfg.budget_s)
                        THEN run_results \o NestedFound(script, it, di)
                        ELSE run_results
              /\ run_pc' = nxt.run_pc
              /\ it' = nxt.it
              /\ di' = nxt.di
    /\ UNCHANGED <<strat, rcfg, ciphertext, script, started>>
    /\ UNCHANGED mainvars
    /\ UNCHANGED callvars

NextRun ==
    \/ RotNCall \/ RotNIter
    \/ SuperRotCall \/ SuperRotIter
    \/ Base64Call \/ Base64Raw \/ Base64Decode \/ Base64Nested

SpecRun == InitRun /\ [][NextRun]_vars

-----------------------------------------------------------------------------
(* What the same call returns when no budget check finds the budget exceeded *)

FullRotN(ct, c) ==
    IF c.n.all THEN [k \in 1..RotNKeys |-> RotNFound(ct, k - 1)]
    ELSE <<RotNFound(ct, c.n.n % 26)>>

FullSuperRot(ct, c) ==
    IF Len(Combos(c)) > 0
    THEN [i \in 1..Len(Combos(c)) |-> SuperRotFound(ct, Combos(c)[i])]
    ELSE <<SuperRotFallback(ct)>>

EntryOut(sc, i, d, np) ==
    IF sc[i].outs[d].plain
    THEN <<Base64Found(sc, i, d, 0)>> \o (IF np > 0 THEN NestedFound(sc, i, d) ELSE <<>>)
    ELSE <<>>

RECURSIVE StringOut(_, _, _, _)
StringOut(sc, i, d, np) ==
    IF d > Len(sc[i].outs) THEN <<>>
    ELSE EntryOut(sc, i, d, np) \o StringOut(sc, i, d + 1, np)

RECURSIVE FullBase64(_, _, _)
FullBase64(sc, i, np) ==
    IF i > Len(sc) THEN <<>>
    ELSE (IF sc[i].tried THEN StringOut(sc, i, 1, np) ELSE <<>>) \o FullBase64(sc, i + 1, np)

Unlimited ==
    IF strat = "rot13" THEN FullRotN(ciphertext, rcfg)
    ELSE IF strat = "super_rot" THEN FullSuperRot(ciphertext, rcfg)
    ELSE IF strat = "base64" THEN FullBase64(script, 1, rcfg.nested_passes)
    ELSE <<>>

UnlimitedRaises == \E i \in 1..Len(Unlimited) : Raised(Unlimited[i].text)

-----------------------------------------------------------------------------
(* Single calls followed on their own: main's loop and the strategy runs idle *)

NoMain ==
    /\ pc = "idle"
    /\ idx = 0
    /\ results = <<>>
    /\ clock = 0
    /\ started_all = 0
    /\ last_elapsed = -1
    /\ launched = <<>>
    /\ faulted = {}
    /\ skipped = {}
    /\ cfg = [per_algo_cap |-> 5, ensure_each_algo_top1 |-> TRUE, top_k |-> 10,
              total_budget_s |-> 600]
    /\ ranked_all = <<>>
    /\ buckets = <<>>
    /\ capped = <<>>
    /\ ranked_final = <<>>
    /\ shown = <<>>
    /\ rerun = <<>>

-----------------------------------------------------------------------------
(* text_to_decipher: main's expansion and the override the strategies read *)

\* longest ciphertext of the override model
MaxText == 3

\* "%c"
Placeholder == <<37, 99>>

\* the characters % c a, and the ciphertexts over them
TextChars == {37, 99, 97}
TextInputs == SeqsUpTo(TextChars, MaxText)

\* the value of the text_to_decipher key: a str, or no str (key absent, None)
NoOverride == [is_str |-> FALSE, s |-> <<>>]
StrOverride(s) == [is_str |-> TRUE, s |-> s]

\* "%c", "a%c", "%c%c", "aa", ""
Overrides ==
    {NoOverride} \cup
    {StrOverride(s) : s \in {Placeholder, <<97, 37, 99>>, <<37, 99, 37, 99>>, <<97, 97>>, <<>>}}

StartsWith(s, p) == Len(p) <= Len(s) /\ SubSeq(s, 1, Len(p)) = p

\* s.replace(old, new), old not empty: the matches from the left, not overlapping
RECURSIVE str_replace(_, _, _)
str_replace(s, old, new) ==
    IF s = <<>> THEN <<>>
    ELSE IF StartsWith(s, old)
         THEN new \o str_replace(SubSeq(s, Len(old) + 1, Len(s)), old, new)
    ELSE <<s[1]>> \o str_replace(Tail(s), old, new)

\* main: mc["text_to_decipher"] after the optional placeholder expansion
PreparedConfig(mc, ct) ==
    IF mc.is_str /\ mc.s = Placeholder THEN StrOverride(ct) ELSE mc

\* run: the ciphertext after the text_override lines
OverriddenText(mc, ct) ==
    IF mc.is_str THEN str_replace(mc.s, Placeholder, ct) ELSE ct

InitText ==
    /\ NoMain
    /\ NoRun
    /\ stage = "config"
    /\ arg \in [ciphertext : TextInputs, text_to_decipher : Overrides]
    /\ ret = <<>>

\* main prepares the per-module config before module.run
MainPreparesConfig ==
    /\ stage = "config"
    /\ ret' = [via |-> "main", mc |-> PreparedConfig(arg.text_to_decipher, arg.ciphertext)]
    /\ stage' = "call"
    /\ UNCHANGED <<arg, clock>>
    /\ UNCHANGED mainvars
    /\ UNCHANGED runvars

\* run is called with the config as written, not through main
CalledDirectly ==
    /\ stage = "config"
    /\ ret' = [via |-> "direct", mc |-> arg.text_to_decipher]
    /\ stage' = "call"
    /\ UNCHANGED <<arg, clock>>
    /\ UNCHANGED mainvars
    /\ UNCHANGED runvars

\* run reads text_to_decipher and fixes the text it deciphers
StrategyReadsOverride ==
    /\ stage = "call"
    /\ ret' = [via |-> ret.via, mc |-> ret.mc,
               deciphers |-> OverriddenText(ret.mc, arg.ciphertext)]
    /\ stage' = "deciphering"
    /\ UNCHANGED <<arg, clock>>
    /\ UNCHANGED mainvars
    /\ UNCHANGED runvars

NextText == MainPreparesConfig \/ CalledDirectly \/ StrategyReadsOverride

SpecText == InitText /\ [][NextText]_vars

-----------------------------------------------------------------------------
(* The primitive decoders; a text is its code points, a bytes object its   *)
(* byte values, and a call returns its bytes or raises                      *)

Returned(b) == [raised |-> FALSE, out |-> b]
Raises == [raised |-> TRUE, out |-> <<>>]

Reverse(s) == [i \in 1..Len(s) |-> s[Len(s) + 1 - i]]

\* modules/base45.py: ALPHABET, "0123456789ABCDEFGHIJKLMNOPQRSTUVWXYZ $%*+-./:"
ALPHABET_b45 ==
    <<48, 49, 50, 51, 52, 53, 54, 55, 56, 57, 65, 66, 67, 68, 69, 70, 71, 72,
      73, 74, 75, 76, 77, 78, 79, 80, 81, 82, 83, 84, 85, 86, 87, 88, 89, 90,
      32, 36, 37, 42, 43, 45, 46, 47, 58>>

A2I(c) == IndexOf(ALPHABET_b45, c)

\* a decoder that takes the low byte of a 3-group for the high one as well
b45PairLowTwice(v) == <<v % 256, v % 256>>

\* out.append(v // 256); out.append(v % 256)
b45Pair(v) == <<v \div 256, v % 256>>

\* the while loop of b45decode from index i on (i counts from 0, as in the code)
RECURSIVE b45loop(_, _, _)
b45loop(vals, i, out) ==
    LET L == Len(vals)
    IN IF ~(i < L) THEN Returned(out)
       ELSE IF i + 2 < L
       THEN LET v == vals[i + 1] + 45 * vals[i + 2] + 45 * 45 * vals[i + 3]
            IN IF v > 65535 THEN Raises
               ELSE b45loop(vals, i + 3, out \o b45Pair(v))
       ELSE IF i + 1 < L
       THEN LET v == vals[i + 1] + 45 * vals[i + 2]
            IN IF v > 255 THEN Raises
               ELSE b45loop(vals, i + 2, Append(out, v))
       ELSE Raises

b45decode(s) ==
    IF \E i \in 1..Len(s) : A2I(s[i]) = ValueError
    THEN Raises
    ELSE b45loop([i \in 1..Len(s) |-> A2I(s[i])], 0, <<>>)

\* modules/base58.py: ALPHABETS
ALPHABETS ==
    [bitcoin |->
        <<49, 50, 51, 52, 53, 54, 55, 56, 57, 65, 66, 67, 68, 69, 70, 71, 72,
          74, 75, 76, 77, 78, 80, 81, 82, 83, 84, 85, 86, 87, 88, 89, 90, 97,
          98, 99, 100, 101, 102, 103, 104, 105, 106, 107, 109, 110, 111, 112,
          113, 114, 115, 116, 117, 118, 119, 120, 121, 122>>,
     ripple |->
        <<114, 112, 115, 104, 110, 97, 102, 51, 57, 119, 66, 85, 68, 78, 69,
          71, 72, 74, 75, 76, 77, 52, 80, 81, 82, 83, 84, 55, 86, 87, 88, 89,
          90, 50, 98, 99, 100, 101, 67, 103, 54, 53, 106, 107, 109, 56, 111,
          70, 113, 105, 49, 116, 117, 118, 65, 120, 121, 122>>,
     flickr |->
        <<49, 50, 51, 52, 53, 54, 55, 56, 57, 97, 98, 99, 100, 101, 102, 103,
          104, 105, 106, 107, 109, 110, 111, 112, 113, 114, 115, 116, 117, 118,
          119, 120, 121, 122, 65, 66, 67, 68, 69, 70, 71, 72, 74, 75, 76, 77,
          78, 80, 81, 82, 83, 84, 85, 86, 87, 88, 89, 90>>]

B58_STD == ALPHABETS["bitcoin"]

\* A Python int of any size is the list of its base-256 digits, the least
\* significant first and no leading zero digit; 0 is the empty list.
\* num * base + carry
RECURSIVE MulAdd(_, _, _)
MulAdd(num, base, carry) ==
    IF num = <<>>
    THEN IF carry = 0 THEN <<>>
         ELSE <<carry % 256>> \o MulAdd(<<>>, base, carry \div 256)
    ELSE LET x == Head(num) * base + carry
         IN <<x % 256>> \o MulAdd(Tail(num), base, x \div 256)

\* for ch in s: num = num * base + charmap[ch]
RECURSIVE b58num(_, _, _)
b58num(s, alphabet, num) ==
    IF s = <<>> THEN num
    ELSE b58num(Tail(s), alphabet,
                MulAdd(num, Len(alphabet), IndexOf(alphabet, Head(s))))

\* the leading characters of s that are alphabet[0]
RECURSIVE LeadingZeros(_, _)
LeadingZeros(s, zero) ==
    IF s # <<>> /\ Head(s) = zero THEN 1 + LeadingZeros(Tail(s), zero) ELSE 0

\* a decoder that forgets the leading zero-value symbols
b58NoZeros(s, zero) == 0

b58zeros(s, zero) == LeadingZeros(s, zero)

\* the divmod loop appends the digits of num, the least significant first;
\* full is their reverse
b58_decode_to_bytes(s, alphabet) ==
    IF s = <<>> THEN Returned(<<>>)
    ELSE IF \E i \in 1..Len(s) : IndexOf(alphabet, s[i]) = ValueError
    THEN Raises
    ELSE LET full == Reverse(b58num(s, alphabet, <<>>))
             zeros == b58zeros(s, alphabet[1])
         IN Returned([i \in 1..zeros |-> 0] \o full)

\* modules/base91.py: ALPHABET
ALPHABET_b91 ==
    <<65, 66, 67, 68, 69, 70, 71, 72, 73, 74, 75, 76, 77, 78, 79, 80, 81, 82,
      83, 84, 85, 86, 87, 88, 89, 90, 97, 98, 99, 100, 101, 102, 103, 104, 105,
      106, 107, 108, 109, 110, 111, 112, 113, 114, 115, 116, 117, 118, 119,
      120, 121, 122, 48, 49, 50, 51, 52, 53, 54, 55, 56, 57, 33, 35, 36, 37,
      38, 40, 41, 42, 43, 44, 46, 47, 58, 59, 60, 61, 62, 63, 64, 91, 93, 94,
      95, 96, 123, 124, 125, 126, 34>>

D(ch) == IndexOf(ALPHABET_b91, ch)

\* a | b on non-negative ints
RECURSIVE BitOr(_, _)
BitOr(a, b) ==
    IF a = 0 THEN b
    ELSE IF b = 0 THEN a
    ELSE 2 * BitOr(a \div 2, b \div 2) + Max(a % 2, b % 2)

\* v << n
RECURSIVE Shl(_, _)
Shl(v, n) == IF n = 0 THEN v ELSE Shl(2 * v, n - 1)

\* the inner loop: out.append(b & 255); b >>= 8; n -= 8; until n <= 7
RECURSIVE b91emit(_, _, _)
b91emit(b, n, out) ==
    LET out1 == Append(out, b % 256)
        b1 == b \div 256
        n1 == n - 8
    IN IF n1 <= 7 THEN [b |-> b1, n |-> n1, out |-> out1]
       ELSE b91emit(b1, n1, out1)

\* a decoder that always takes 13 bits
b91Always13(v) == 13

\* 13 if (v & 8191) > 88 else 14
b91bits(v) == IF (v % 8192) > 88 THEN 13 ELSE 14

\* the for loop of b91decode over the values of the characters, then the flush
RECURSIVE b91loop(_, _, _, _, _)
b91loop(cs, v, b, n, out) ==
    IF cs = <<>>
    THEN IF v # -1 THEN Append(out, BitOr(b, Shl(v, n)) % 256) ELSE out
    ELSE LET c == Head(cs)
         IN IF v < 0
            THEN b91loop(Tail(cs), c, b, n, out)
            ELSE LET v1 == v + c * 91
                     b1 == BitOr(b, Shl(v1, n))
                     e == b91emit(b1, n + b91bits(v1), out)
                 IN b91loop(Tail(cs), -1, e.b, e.n, e.out)

b91decode(s) ==
    IF \E i \in 1..Len(s) : D(s[i]) = ValueError
    THEN Raises
    ELSE Returned(b91loop([i \in 1..Len(s) |-> D(s[i])], -1, 0, 0, <<>>))

-----------------------------------------------------------------------------
(* The standard encoders. The toolkit only decodes; the encoders produce    *)
(* the encoded inputs of the decoder calls followed below.                  *)

\* RFC 9285: two bytes make three symbols, a last single byte makes two
RECURSIVE Base45Encode(_)
Base45Encode(B) ==
    IF B = <<>> THEN <<>>
    ELSE IF Len(B) = 1
    THEN <<ALPHABET_b45[(B[1] % 45) + 1], ALPHABET_b45[(B[1] \div 45) + 1]>>
    ELSE LET v == B[1] * 256 + B[2]
         IN <<ALPHABET_b45[(v % 45) + 1],
              ALPHABET_b45[((v \div 45) % 45) + 1],
              ALPHABET_b45[(v \div 2025) + 1]>>
            \o Base45Encode(SubSeq(B, 3, Len(B)))

\* long division of the big-endian digit list be by d: quotient digits and rest
RECURSIVE LongDiv(_, _, _, _)
LongDiv(be, d, rem, q) ==
    IF be = <<>> THEN [q |-> q, r |-> rem]
    ELSE LET x == rem * 256 + Head(be)
         IN LongDiv(Tail(be), d, x % d, Append(q, x \div d))

RECURSIVE StripZeros(_)
StripZeros(be) == IF be # <<>> /\ Head(be) = 0 THEN StripZeros(Tail(be)) ELSE be

\* the base-58 digits of the number with big-endian bytes be, the least
\* significant first
RECURSIVE Base58Digits(_)
Base58Digits(be) ==
    IF StripZeros(be) = <<>> THEN <<>>
    ELSE LET dv == LongDiv(StripZeros(be), 58, 0, <<>>)
         IN <<dv.r>> \o Base58Digits(dv.q)

\* Base58: one alphabet[0] for each leading zero byte, then the digits of the
\* rest read as a big-endian number
Base58Encode(B, alphabet) ==
    LET digits == Reverse(Base58Digits(B))
    IN [i \in 1..LeadingZeros(B, 0) |-> alphabet[1]]
       \o [i \in 1..Len(digits) |-> alphabet[digits[i] + 1]]

\* basE91: the bits of the bytes queue up, the least significant first; 13 bits
\* leave the queue as two symbols when their value is above 88, else 14 bits
RECURSIVE Base91Encode(_, _, _)
Base91Encode(B, b, n) ==
    IF B = <<>>
    THEN IF n = 0 THEN <<>>
         ELSE IF n > 7 \/ b > 90
         THEN <<ALPHABET_b91[(b % 91) + 1], ALPHABET_b91[(b \div 91) + 1]>>
         ELSE <<ALPHABET_b91[(b % 91) + 1]>>
    ELSE LET b1 == b + Head(B) * (2 ^ n)
             n1 == n + 8
         IN IF n1 > 13
            THEN LET take == IF (b1 % 8192) > 88 THEN 13 ELSE 14
                     v == b1 % (2 ^ take)
                 IN <<ALPHABET_b91[(v % 91) + 1], ALPHABET_b91[(v \div 91) + 1]>>
                    \o Base91Encode(Tail(B), b1 \div (2 ^ take), n1 - take)
            ELSE Base91Encode(Tail(B), b1, n1)

-----------------------------------------------------------------------------
(* From decoded bytes to a plain text *)

\* str.isspace()
isspace(c) ==
    c \in (9..13) \cup (28..32) \cup {133, 160, 5760} \cup (8192..8202)
          \cup {8232, 8233, 8239, 8287, 12288}

RECURSIVE lstrip(_)
lstrip(s) == IF s # <<>> /\ isspace(Head(s)) THEN lstrip(Tail(s)) ELSE s

\* str.strip()
strip(s) == Reverse(lstrip(Reverse(lstrip(s))))

\* _normalize on ASCII text without zero-width characters, which NFKC and the
\* three replace calls leave as it is
_normalize(s) == strip(s)

\* both _strip_to_allowed: the characters of s that are in allowed
_strip_to_allowed(s, allowed) == SelectSeq(s, LAMBDA ch : ch \in allowed)

\* a continuation byte of UTF-8
Cont(b, i) == i <= Len(b) /\ b[i] \in 128..191

\* the length of the well-formed UTF-8 sequence at the head of b, 0 if none
Utf8Len(b) ==
    LET b1 == b[1]
    IN IF b1 < 128 THEN 1
       ELSE IF b1 \in 194..223 /\ Cont(b, 2) THEN 2
       ELSE IF /\ b1 \in 224..239 /\ Cont(b, 2) /\ Cont(b, 3)
               /\ (b1 = 224 => b[2] >= 160) /\ (b1 = 237 => b[2] <= 159) THEN 3
       ELSE IF /\ b1 \in 240..244 /\ Cont(b, 2) /\ Cont(b, 3) /\ Cont(b, 4)
               /\ (b1 = 240 => b[2] >= 144) /\ (b1 = 244 => b[2] <= 143) THEN 4
       ELSE 0

\* the code point of the sequence of n bytes at the head of b
Utf8Point(b, n) ==
    IF n = 1 THEN b[1]
    ELSE IF n = 2 THEN (b[1] - 192) * 64 + (b[2] - 128)
    ELSE IF n = 3 THEN (b[1] - 224) * 4096 + (b[2] - 128) * 64 + (b[3] - 128)
    ELSE (b[1] - 240) * 262144 + (b[2] - 128) * 4096 + (b[3] - 128) * 64
         + (b[4] - 128)

\* b.decode("utf-8", errors="ignore")
RECURSIVE utf8_ignore(_)
utf8_ignore(b) ==
    IF b = <<>> THEN <<>>
    ELSE LET n == Utf8Len(b)
         IN IF n = 0 THEN utf8_ignore(Tail(b))
            ELSE <<Utf8Point(b, n)>> \o utf8_ignore(SubSeq(b, n + 1, Len(b)))

\* modules/common.py: is_mostly_printable, thresh 0.9; string.printable is
\* the code points 9..13 and 32..126
is_mostly_printable(s) ==
    LET good == Cardinality({i \in 1..Len(s) : s[i] \in (9..13) \cup (32..126)})
    IN 10 * good >= 9 * Max(1, Len(s))

\* _to_text and to_text_or_none: the text, or None
_to_text(b, min_len) ==
    LET t == utf8_ignore(b)
    IN IF t # <<>> /\ Len(strip(t)) >= min_len /\ is_mostly_printable(t)
       THEN [some |-> TRUE, t |-> t]
       ELSE [some |-> FALSE, t |-> <<>>]

\* hashlib.sha256(hashlib.sha256(payload).digest()).digest()[:4], on the
\* payloads the calls followed below reach
Sha256d4 ==
    {<<<<>>, <<93, 246, 224, 226>>>>,
     <<<<0>>, <<20, 6, 224, 88>>>>,
     <<<<1>>, <<156, 18, 207, 220>>>>,
     <<<<97>>, <<191, 93, 58, 255>>>>,
     <<<<1, 63>>, <<109, 173, 39, 248>>>>,
     <<<<1, 85>>, <<142, 99, 5, 73>>>>,
     <<<<55, 95>>, <<176, 157, 226, 1>>>>,
     <<<<97, 98>>, <<161, 255, 143, 24>>>>,
     <<<<104, 105>>, <<188, 79, 72, 215>>>>}

sha256d4(payload) == (CHOOSE e \in Sha256d4 : e[1] = payload)[2]

\* modules/base58.py
b58check_strip_and_verify(raw) ==
    IF Len(raw) < 5 THEN [ok |-> FALSE, payload |-> raw]
    ELSE LET payload == SubSeq(raw, 1, Len(raw) - 4)
             checksum == SubSeq(raw, Len(raw) - 3, Len(raw))
         IN [ok |-> checksum = sha256d4(payload), payload |-> payload]

-----------------------------------------------------------------------------
(* The decoders called on encoded byte strings *)

\* the longest byte string encoded
MaxBytes == 3

ByteVals == {0, 1, 97, 128, 255}

ByteStrings == SeqsUpTo(ByteVals, MaxBytes)

\* "", "\x00", "a", "ab", "hi"
Payloads == {<<>>, <<0>>, <<97>>, <<97, 98>>, <<104, 105>>}

Families == {[family |-> "base45", alphabet |-> "none"],
             [family |-> "base91", alphabet |-> "none"],
             [family |-> "b58check", alphabet |-> "none"]}
            \cup {[family |-> "base58", alphabet |-> a] : a \in DOMAIN ALPHABETS}

EncodedBy(f, B) ==
    IF f.family = "base45" THEN Base45Encode(B)
    ELSE IF f.family = "base58" THEN Base58Encode(B, ALPHABETS[f.alphabet])
    ELSE IF f.family = "b58check" THEN B \o sha256d4(B)
    ELSE Base91Encode(B, 0, 0)

InitCodec ==
    /\ NoMain
    /\ NoRun
    /\ stage = "encoded"
    /\ \E f \in Families :
       \E B \in (IF f.family = "b58check" THEN Payloads ELSE ByteStrings) :
           arg = [family |-> f.family, alphabet |-> f.alphabet, bytes |-> B,
                  symbols |-> EncodedBy(f, B)]
    /\ ret = Returned(<<>>)

Decode45 ==
    /\ stage = "encoded" /\ arg.family = "base45"
    /\ stage' = "decoded"
    /\ ret' = b45decode(arg.symbols)
    /\ UNCHANGED <<arg, clock>>
    /\ UNCHANGED mainvars
    /\ UNCHANGED runvars

Decode58 ==
    /\ stage = "encoded" /\ arg.family = "base58"
    /\ stage' = "decoded"
    /\ ret' = b58_decode_to_bytes(arg.symbols, ALPHABETS[arg.alphabet])
    /\ UNCHANGED <<arg, clock>>
    /\ UNCHANGED mainvars
    /\ UNCHANGED runvars

Decode91 ==
    /\ stage = "encoded" /\ arg.family = "base91"
    /\ stage' = "decoded"
    /\ ret' = b91decode(arg.symbols)
    /\ UNCHANGED <<arg, clock>>
    /\ UNCHANGED mainvars
    /\ UNCHANGED runvars

\* b58check_strip_and_verify called on a payload followed by its checksum
Verify58Check ==
    /\ stage = "encoded" /\ arg.family = "b58check"
    /\ stage' = "decoded"
    /\ ret' = b58check_strip_and_verify(arg.symbols)
    /\ UNCHANGED <<arg, clock>>
    /\ UNCHANGED mainvars
    /\ UNCHANGED runvars

NextCodec == Decode45 \/ Decode58 \/ Decode91 \/ Verify58Check

SpecCodec == InitCodec /\ [][NextCodec]_vars

-----------------------------------------------------------------------------
(* The runs of the base45 and the base58 strategy on a ciphertext *)

\* the provenance a candidate carries in its params; drop is 1 - kept/of
Tag(kind, k, ph, a, b, kept, of) ==
    [kind |-> kind, k |-> k, ph |-> ph, a |-> a, b |-> b, kept |-> kept, of |-> of]

\* results and tried of a run, the tokens it handed to a decoder so far, and
\* whether an exception left the run
NoAttempts == [results |-> <<>>, tried |-> {}, attempted |-> <<>>, raised |-> FALSE]

\* a try_decode without its except clause
Propagated(st) == [st EXCEPT !.raised = TRUE]

\* except Exception: return
Caught(st) == st

\* modules/base45.py: try_decode of run
try_decode(st, s, tag, min_plain_len) ==
    IF st.raised \/ s \in st.tried THEN st
    ELSE LET st1 == [st EXCEPT !.tried = @ \cup {s},
                               !.attempted = Append(@, [tag |-> tag, tok |-> s])]
             out == b45decode(s)
         IN IF out.raised THEN Caught(st1)
            ELSE LET plain == _to_text(out.out, min_plain_len)
                 IN IF plain.some
                    THEN [st1 EXCEPT !.results =
                              Append(@, Found("base45", tag, plain.t))]
                    ELSE st1

\* "whole string": the raw attempt, then the keep-only attempt when keep is long
\* enough and the second reading of the clock finds time left
Whole45(st, src, c, up2) ==
    LET st1 == try_decode(st, src, Tag("raw", 0, 0, 0, 0, 0, 0), c.min_plain_len)
        keep == _strip_to_allowed(src, Range(ALPHABET_b45))
    IN IF Len(keep) >= c.min_token_len /\ ~up2
       THEN try_decode(st1, keep,
                       Tag("keep_only", 0, 0, 0, 0, Len(keep), Max(1, Len(src))),
                       c.min_plain_len)
       ELSE st1

\* ''.join(ch for i, ch in enumerate(src) if i % k != ph)
Cleaned(src, k, ph) ==
    LET kept == {i \in 1..Len(src) : (i - 1) % k # ph}
        nth(j) == CHOOSE i \in kept : Cardinality({h \in kept : h < i}) = j - 1
    IN [j \in 1..Cardinality(kept) |-> src[nth(j)]]

\* for ph in range(k), from phase ph on
RECURSIVE Periodic45(_, _, _, _, _)
Periodic45(st, src, c, k, ph) ==
    IF ph >= k THEN st
    ELSE LET keep2 == _strip_to_allowed(Cleaned(src, k, ph), Range(ALPHABET_b45))
             st1 == IF Len(keep2) >= c.min_token_len
                    THEN try_decode(st, keep2,
                             Tag("rm_periodic", k, ph, 0, 0, Len(keep2),
                                 Max(1, Len(src))),
                             c.min_plain_len)
                    ELSE st
         IN Periodic45(st1, src, c, k, ph + 1)

\* the characters the lookbehind of RE_B45 refuses in front of a token: the
\* printable ASCII characters outside the alphabet
Refused45 == (32..126) \ Range(ALPHABET_b45)

\* the length of the run of alphabet characters of s from position i (from 0)
RECURSIVE RunLen45(_, _)
RunLen45(s, i) ==
    IF i < Len(s) /\ s[i + 1] \in Range(ALPHABET_b45)
    THEN 1 + RunLen45(s, i + 1) ELSE 0

\* RE_B45.finditer(src) from position i on: the spans [a, b) of the matches
RECURSIVE Finditer45(_, _)
Finditer45(s, i) ==
    IF i >= Len(s) THEN <<>>
    ELSE IF (i = 0 \/ s[i] \notin Refused45) /\ RunLen45(s, i) >= 6
    THEN <<[a |-> i, b |-> i + RunLen45(s, i)]>>
         \o Finditer45(s, i + RunLen45(s, i))
    ELSE Finditer45(s, i + 1)

\* for m in RE_B45.finditer(src), from match j on
RECURSIVE Scan45(_, _, _, _, _)
Scan45(st, src, c, ms, j) ==
    IF j > Len(ms) THEN st
    ELSE Scan45(try_decode(st, SubSeq(src, ms[j].a + 1, ms[j].b),
                           Tag("scan", 0, 0, ms[j].a, ms[j].b, 0, 0),
                           c.min_plain_len),
                src, c, ms, j + 1)

\* ALPHABETS.get(aname, B58_STD)
AlphabetOf(aname) ==
    IF aname \in DOMAIN ALPHABETS THEN ALPHABETS[aname] ELSE B58_STD

\* modules/base58.py: try_decode_b58_token of run, from alphabet number j of
\* alphs on; nested is 0, so nest[:nested] is empty
RECURSIVE try_decode_b58_token(_, _, _, _, _)
try_decode_b58_token(st, tok, tag, c, j) ==
    IF j > Len(c.alphabets) THEN st
    ELSE LET aname == c.alphabets[j]
             raw == b58_decode_to_bytes(tok, AlphabetOf(aname))
             plain == _to_text(raw.out, c.min_plain_len)
             st1 == IF plain.some
                    THEN [st EXCEPT !.results =
                            Append(@, Found("base58",
                                [tag |-> tag, aname |-> aname, check |-> "none"],
                                plain.t))]
                    ELSE st
             v == b58check_strip_and_verify(raw.out)
             plain2 == _to_text(v.payload, c.min_plain_len)
             st2 == IF "b58check" \in Range(c.check_modes) /\ v.ok /\ plain2.some
                    THEN [st1 EXCEPT !.results =
                            Append(@, Found("base58",
                                [tag |-> tag, aname |-> aname, check |-> "b58check"],
                                plain2.t))]
                    ELSE st1
         IN IF raw.raised
            THEN try_decode_b58_token(st, tok, tag, c, j + 1)
            ELSE try_decode_b58_token(st2, tok, tag, c, j + 1)

\* if s not in tried_strings: tried_strings.add(s); try_decode_b58_token(s, tag)
Try58(st, s, tag, c) ==
    IF s \in st.tried THEN st
    ELSE try_decode_b58_token(
             [st EXCEPT !.tried = @ \cup {s},
                        !.attempted = Append(@, [tag |-> tag, tok |-> s])],
             s, tag, c, 1)

\* section 1 of run: raw, then keep-only over the standard alphabet
Whole58(st, src, c) ==
    LET st1 == Try58(st, src, Tag("raw", 0, 0, 0, 0, 0, 0), c)
        keep == _strip_to_allowed(src, Range(B58_STD))
    IN IF Len(keep) >= c.min_token_len
       THEN Try58(st1, keep,
                  Tag("keep_std", 0, 0, 0, 0, Len(keep), Max(1, Len(src))), c)
       ELSE st1

Configs45 ==
    [budget_s : Budgets, scan_substrings : BOOLEAN, min_token_len : {3, 6},
     periodic_max_k : {2, 3}, min_plain_len : {1, 6}]

Configs58 ==
    [alphabets : {<<"bitcoin">>, <<"ripple", "bitcoin">>},
     check_modes : {<<"none">>, <<"none", "b58check">>},
     nested_passes : {0}, budget_s : Budgets, scan_substrings : {FALSE},
     aggressive_salvage : {FALSE}, min_token_len : {5}, min_plain_len : {1}]

\* "BB8", "::", ":::", "A", "BB8::", "!BB8",
\* "BB8BB8", "!QED8WEX0", "%69 VD92EX0", "!%69 VD92EX0"
Ciphertexts45 ==
    {<<66, 66, 56>>,
     <<58, 58>>,
     <<58, 58, 58>>,
     <<65>>,
     <<66, 66, 56, 58, 58>>,
     <<33, 66, 66, 56>>,
     <<66, 66, 56, 66, 66, 56>>,
     <<33, 81, 69, 68, 56, 87, 69, 88, 48>>,
     <<37, 54, 57, 32, 86, 68, 57, 50, 69, 88, 48>>,
     <<33, 37, 54, 57, 32, 86, 68, 57, 50, 69, 88, 48>>}

\* "C2dGTwc", "C2dGTwb", "0C2dGTwc", "2g", "3QJmnh", "tzgy3cTQ", "0"
Ciphertexts58 ==
    {<<67, 50, 100, 71, 84, 119, 99>>,
     <<67, 50, 100, 71, 84, 119, 98>>,
     <<48, 67, 50, 100, 71, 84, 119, 99>>,
     <<50, 103>>,
     <<51, 81, 74, 109, 110, 104>>,
     <<116, 122, 103, 121, 51, 99, 84, 81>>,
     <<48>>}

\* the defaults of base45.run
Defaults45 ==
    [budget_s : Budgets, scan_substrings : {TRUE}, min_token_len : {6},
     periodic_max_k : {6}, min_plain_len : {6}]

\* valid Base45 strings: "%69 VD92EX0" encodes "Hello!!", " QEIEC7%E" encodes
\* "status"
Originals45 ==
    {<<37, 54, 57, 32, 86, 68, 57, 50, 69, 88, 48>>,
     <<32, 81, 69, 73, 69, 67, 55, 37, 69>>}

\* "!" (outside the Base45 alphabet) and ":" (inside it)
Junk45 == {33, 58}

\* s with the junk character j inserted so that every fifth character of the
\* result is j
Noisy(s, j) ==
    [p \in 1..(Len(s) + Len(s) \div 4) |->
        IF p % 5 = 0 THEN j ELSE s[p - p \div 5]]

InitTokens ==
    /\ NoMain
    /\ strat \in {"base45", "base58"}
    /\ \/ /\ stage = "run"
          /\ arg = <<>>
          /\ rcfg \in (IF strat = "base45" THEN Configs45 ELSE Configs58)
          /\ ciphertext \in (IF strat = "base45" THEN Ciphertexts45 ELSE Ciphertexts58)
       \/ /\ stage = "noisy"
          /\ strat = "base45"
          /\ arg \in [orig : Originals45, junk : Junk45]
          /\ rcfg \in Defaults45
          /\ ciphertext = Noisy(arg.orig, arg.junk)
    /\ script = <<>>
    /\ run_pc = "call"
    /\ started = 0
    /\ run_results = <<>>
    /\ it = 0
    /\ di = 0
    /\ timed_out = FALSE
    /\ ret = [tried |-> {}, attempted |-> <<>>]

\* results, tried and the tokens attempted, as the run holds them
Attempts ==
    [results |-> run_results, tried |-> ret.tried, attempted |-> ret.attempted,
     raised |-> FALSE]

Keeps(st, next_pc) ==
    /\ run_results' = st.results
    /\ ret' = [tried |-> st.tried, attempted |-> st.attempted]
    /\ run_pc' = IF st.raised THEN "raised" ELSE next_pc

\* base45.run from its call to the end of "whole string"; the clock is read at
\* started, at the first time_up() and, when keep is long enough, at the second
Run45Whole ==
    /\ strat = "base45" /\ run_pc = "call"
    /\ \E t0 \in clock..MaxClock : \E t1 \in t0..MaxClock : \E t2 \in t1..MaxClock :
        LET src == _normalize(ciphertext)
            keep == _strip_to_allowed(src, Range(ALPHABET_b45))
            up1 == time_up(t1, t0, rcfg.budget_s)
            reads2 == ~up1 /\ Len(keep) >= rcfg.min_token_len
            up2 == time_up(t2, t0, rcfg.budget_s)
        IN /\ reads2 \/ t2 = t1
           /\ started' = t0
           /\ clock' = t2
           /\ timed_out' = (up1 \/ (reads2 /\ up2))
           /\ Keeps(IF up1 THEN NoAttempts ELSE Whole45(NoAttempts, src, rcfg, up2),
                    "periodic")
    /\ it' = 0
    /\ UNCHANGED <<strat, rcfg, ciphertext, script, di>>
    /\ UNCHANGED <<stage, arg>>
    /\ UNCHANGED mainvars

\* if not time_up(): in front of the periodic removal
Run45Periodic ==
    /\ strat = "base45" /\ run_pc = "periodic"
    /\ \E t \in clock..MaxClock :
        /\ clock' = t
        /\ IF time_up(t, started, rcfg.budget_s)
           THEN timed_out' = TRUE /\ run_pc' = "scan" /\ it' = it
           ELSE timed_out' = timed_out /\ run_pc' = "periodic_k" /\ it' = 2
    /\ UNCHANGED <<strat, rcfg, ciphertext, script, started, run_results, di>>
    /\ UNCHANGED callvars
    /\ UNCHANGED mainvars

\* one iteration of for k in range(2, max(3, periodic_max_k + 1)), k = it
Run45PeriodicK ==
    /\ strat = "base45" /\ run_pc = "periodic_k"
    /\ \E t \in clock..MaxClock :
        /\ clock' = t
        /\ IF time_up(t, started, rcfg.budget_s)
           THEN /\ timed_out' = TRUE
                /\ run_pc' = "scan"
                /\ UNCHANGED <<it, run_results, ret>>
           ELSE /\ timed_out' = timed_out
                /\ it' = it + 1
                /\ Keeps(Periodic45(Attempts, _normalize(ciphertext), rcfg, it, 0),
                         IF it + 1 < Max(3, rcfg.periodic_max_k + 1)
                         THEN "periodic_k" ELSE "scan")
    /\ UNCHANGED <<strat, rcfg, ciphertext, script, started, di>>
    /\ UNCHANGED <<stage, arg>>
    /\ UNCHANGED mainvars

\* if scan_sub and not time_up(): the substring scan, then the return
Run45Scan ==
    /\ strat = "base45" /\ run_pc = "scan"
    /\ IF ~rcfg.scan_substrings
       THEN /\ run_pc' = "returned"
            /\ UNCHANGED <<clock, timed_out, run_results, ret>>
       ELSE \E t \in clock..MaxClock :
            /\ clock' = t
            /\ IF time_up(t, started, rcfg.budget_s)
               THEN /\ timed_out' = TRUE
                    /\ run_pc' = "returned"
                    /\ UNCHANGED <<run_results, ret>>
               ELSE /\ timed_out' = timed_out
                    /\ LET src == _normalize(ciphertext)
                       IN Keeps(Scan45(Attempts, src, rcfg, Finditer45(src, 0), 1),
                                "returned")
    /\ UNCHANGED <<strat, rcfg, ciphertext, script, started, it, di>>
    /\ UNCHANGED <<stage, arg>>
    /\ UNCHANGED mainvars

\* base58.run with aggressive_salvage and scan_substrings off: section 1
Run58 ==
    /\ strat = "base58" /\ run_pc = "call"
    /\ \E t0 \in clock..MaxClock : \E t1 \in t0..MaxClock :
        /\ started' = t0
        /\ clock' = t1
        /\ timed_out' = time_up(t1, t0, rcfg.budget_s)
        /\ Keeps(IF time_up(t1, t0, rcfg.budget_s) THEN NoAttempts
                 ELSE Whole58(NoAttempts, _normalize(ciphertext), rcfg),
                 "returned")
    /\ UNCHANGED <<strat, rcfg, ciphertext, script, it, di>>
    /\ UNCHANGED <<stage, arg>>
    /\ UNCHANGED mainvars

NextTokens == Run45Whole \/ Run45Periodic \/ Run45PeriodicK \/ Run45Scan \/ Run58

SpecTokens == InitTokens /\ [][NextTokens]_vars

-----------------------------------------------------------------------------
(* _progressive_transform called to encode a string, then to decode the result *)

\* the longest string transformed
MaxStr == 2

\* "a", "z", "Z", "!" and e-acute
StrChars == {97, 122, 90, 33, 233}

Starts == {0, 9, 25}

Steps == {-27, -1, 1, 5}

InitShift ==
    /\ NoMain
    /\ NoRun
    /\ stage = "plain"
    /\ arg \in [s : SeqsUpTo(StrChars, MaxStr), start_key : Starts, step : Steps,
                order : {"LTR", "RTL"}]
    /\ ret = [encoded |-> <<>>, decoded |-> <<>>]

\* _progressive_transform(s, start, step, "encode", order)
Encode ==
    /\ stage = "plain"
    /\ LET t == _progressive_transform(arg.s, arg.start_key, arg.step, "encode",
                                       arg.order)
       IN IF Raised(t)
          THEN stage' = "raised" /\ ret' = ret
          ELSE stage' = "encoded" /\ ret' = [ret EXCEPT !.encoded = t]
    /\ UNCHANGED <<arg, clock>>
    /\ UNCHANGED mainvars
    /\ UNCHANGED runvars

\* _progressive_transform(encoded, start, step, "decode", order)
Decode ==
    /\ stage = "encoded"
    /\ LET t == _progressive_transform(ret.encoded, arg.start_key, arg.step,
                                       "decode", arg.order)
       IN IF Raised(t)
          THEN stage' = "raised" /\ ret' = ret
          ELSE stage' = "decoded" /\ ret' = [ret EXCEPT !.decoded = t]
    /\ UNCHANGED <<arg, clock>>
    /\ UNCHANGED mainvars
    /\ UNCHANGED runvars

NextShift == Encode \/ Decode

SpecShift == InitShift /\ [][NextShift]_vars

-----------------------------------------------------------------------------
(* The provenance penalties; a path is its code points, a penalty is in      *)
(* hundredths                                                               *)

\* "raw->"
RawArrow == <<114, 97, 119, 45, 62>>

\* "keep_only"
KeepOnly == <<107, 101, 101, 112, 95, 111, 110, 108, 121>>

\* "scan"
ScanWord == <<115, 99, 97, 110>>

\* "rm_periodic"
RmPeriodic == <<114, 109, 95, 112, 101, 114, 105, 111, 100, 105, 99>>

\* "rm["
RmBracket == <<114, 109, 91>>

\* "keep_"
KeepUnderscore == <<107, 101, 101, 112, 95>>

\* "rm_"
RmUnderscore == <<114, 109, 95>>

\* "nested_b64"
NestedB64 == <<110, 101, 115, 116, 101, 100, 95, 98, 54, 52>>

\* "->base64->"
ArrowBase64Arrow == <<45, 62, 98, 97, 115, 101, 54, 52, 45, 62>>

\* "->a85"
ArrowA85 == <<45, 62, 97, 56, 53>>

\* "->b85"
ArrowB85 == <<45, 62, 98, 56, 53>>

\* needle in path
Contains(path, needle) ==
    \E i \in 1..(Len(path) - Len(needle) + 1) :
        SubSeq(path, i, i + Len(needle) - 1) = needle

\* modules/base45.py and modules/base91.py: _path_penalty
_path_penalty_b45(path) ==
    IF StartsWith(path, RawArrow) THEN 0
    ELSE (IF Contains(path, KeepOnly) THEN 30 ELSE 0)
         + (IF Contains(path, ScanWord) THEN 20 ELSE 0)
         + (IF Contains(path, RmPeriodic) \/ Contains(path, RmBracket) THEN 100 ELSE 0)

\* modules/base58.py: _path_penalty
_path_penalty_b58(path) ==
    IF StartsWith(path, RawArrow) THEN 0
    ELSE (IF Contains(path, KeepUnderscore) THEN 30 ELSE 0)
         + (IF Contains(path, RmUnderscore) THEN 110 ELSE 0)
         + (IF Contains(path, NestedB64) THEN 50 ELSE 0)

\* modules/base64.py: _path_penalty
_path_penalty_b64(path) ==
    IF StartsWith(path, RawArrow) THEN 0
    ELSE (IF Contains(path, KeepUnderscore) THEN 40 ELSE 0)
         + (IF Contains(path, RmUnderscore) THEN 120 ELSE 0)
         + (IF Contains(path, ArrowBase64Arrow) THEN 60 ELSE 0)
         + (IF Contains(path, ArrowA85) \/ Contains(path, ArrowB85) THEN 60 ELSE 0)

_path_penalty(family, path) ==
    IF family = "base58" THEN _path_penalty_b58(path)
    ELSE IF family = "base64" THEN _path_penalty_b64(path)
    ELSE _path_penalty_b45(path)

\* the paths the strategies build for a raw decode, a keep-only strip, the
\* removal of one character, a periodic removal and a removal of a combination;
\* base45 and base91 remove no single character, and the token base58.run gets
\* by removing one is the keep-only token it has tried before, so that no run
\* builds a path for it
Provenances ==
    {\* "raw->b45"
     [family |-> "base45", kind |-> "raw", path |->
        <<114, 97, 119, 45, 62, 98, 52, 53>>],
     \* "keep_only(drop=0.02)->b45"
     [family |-> "base45", kind |-> "keep", path |->
        <<107, 101, 101, 112, 95, 111, 110, 108, 121, 40, 100, 114, 111, 112,
          61, 48, 46, 48, 50, 41, 45, 62, 98, 52, 53>>],
     \* "rm_periodic(k=2,ph=0,drop=0.50)->b45"
     [family |-> "base45", kind |-> "periodic", path |->
        <<114, 109, 95, 112, 101, 114, 105, 111, 100, 105, 99, 40, 107, 61,
          50, 44, 112, 104, 61, 48, 44, 100, 114, 111, 112, 61, 48, 46, 53,
          48, 41, 45, 62, 98, 52, 53>>],
     \* "raw->b91"
     [family |-> "base91", kind |-> "raw", path |->
        <<114, 97, 119, 45, 62, 98, 57, 49>>],
     \* "keep_only(drop=0.02)->b91"
     [family |-> "base91", kind |-> "keep", path |->
        <<107, 101, 101, 112, 95, 111, 110, 108, 121, 40, 100, 114, 111, 112,
          61, 48, 46, 48, 50, 41, 45, 62, 98, 57, 49>>],
     \* "rm_periodic(k=2,ph=0,drop=0.50)->b91"
     [family |-> "base91", kind |-> "periodic", path |->
        <<114, 109, 95, 112, 101, 114, 105, 111, 100, 105, 99, 40, 107, 61,
          50, 44, 112, 104, 61, 48, 44, 100, 114, 111, 112, 61, 48, 46, 53,
          48, 41, 45, 62, 98, 57, 49>>],
     \* "raw|bitcoin"
     [family |-> "base58", kind |-> "raw", path |->
        <<114, 97, 119, 124, 98, 105, 116, 99, 111, 105, 110>>],
     \* "keep_std(drop=0.05)|bitcoin"
     [family |-> "base58", kind |-> "keep", path |->
        <<107, 101, 101, 112, 95, 115, 116, 100, 40, 100, 114, 111, 112, 61,
          48, 46, 48, 53, 41, 124, 98, 105, 116, 99, 111, 105, 110>>],
     \* "rm_periodic(k=5,ph=2,drop=0.19)|bitcoin"
     [family |-> "base58", kind |-> "periodic", path |->
        <<114, 109, 95, 112, 101, 114, 105, 111, 100, 105, 99, 40, 107, 61,
          53, 44, 112, 104, 61, 50, 44, 100, 114, 111, 112, 61, 48, 46, 49,
          57, 41, 124, 98, 105, 116, 99, 111, 105, 110>>],
     \* "raw"
     [family |-> "base64", kind |-> "raw", path |->
        <<114, 97, 119>>],
     \* "keep_std"
     [family |-> "base64", kind |-> "keep", path |->
        <<107, 101, 101, 112, 95, 115, 116, 100>>],
     \* "keep_url"
     [family |-> "base64", kind |-> "keep", path |->
        <<107, 101, 101, 112, 95, 117, 114, 108>>],
     \* "rm_digit_std['1']"
     [family |-> "base64", kind |-> "single", path |->
        <<114, 109, 95, 100, 105, 103, 105, 116, 95, 115, 116, 100, 91, 39,
          49, 39, 93>>],
     \* "rm_dcombo_std[01]"
     [family |-> "base64", kind |-> "combo", path |->
        <<114, 109, 95, 100, 99, 111, 109, 98, 111, 95, 115, 116, 100, 91,
          48, 49, 93>>],
     \* "rm_periodic_std[k=3,ph=1]"
     [family |-> "base64", kind |-> "periodic", path |->
        <<114, 109, 95, 112, 101, 114, 105, 111, 100, 105, 99, 95, 115, 116,
          100, 91, 107, 61, 51, 44, 112, 104, 61, 49, 93>>],
     \* "rm_kgram_std['B0']"
     [family |-> "base64", kind |-> "combo", path |->
        <<114, 109, 95, 107, 103, 114, 97, 109, 95, 115, 116, 100, 91, 39,
          66, 48, 39, 93>>]}
-----------------------------------------------------------------------------
(* modules/common.py: the scorer; a score is a fraction num/den, den > 0 *)

RECURSIVE GCD(_, _)
GCD(a, b) == IF b = 0 THEN a ELSE GCD(b, a % b)

\* n/d in lowest terms
Rat(n, d) ==
    LET g == GCD(IF n < 0 THEN 0 - n ELSE n, d)
    IN [num |-> n \div g, den |-> d \div g]
RAdd(x, y) == Rat(x.num * y.den + y.num * x.den, x.den * y.den)
RMul(x, y) == Rat(x.num * y.num, x.den * y.den)
RLess(x, y) == x.num * y.den < y.num * x.den
REq(x, y) == x.num * y.den = y.num * x.den

Count(t, S) == Cardinality({i \in 1..Len(t) : t[i] \in S})

\* str.isalpha() and str.isdigit() on ASCII text
AsciiLetters == (65..90) \cup (97..122)
AsciiDigits == 48..57

\* _char_stats: letters, digits and others; space 32, underscore 95, hyphen 45
_char_stats(t) ==
    LET letters == Count(t, AsciiLetters)
        digits == Count(t, AsciiDigits)
    IN [n |-> Len(t), letters |-> letters, digits |-> digits,
        spaces |-> Count(t, {32}), unders |-> Count(t, {95}),
        others |-> Len(t) - (letters + digits + Count(t, {32}) + Count(t, {95})
                             + Count(t, {45}))]

\* _charclass_score; "==" is <<61, 61>>
_charclass_score(t) ==
    LET s == _char_stats(t)
    IN IF s.n = 0 THEN Rat(0, 1)
       ELSE RAdd(Rat(22 * s.letters - 9 * s.digits - 22 * s.others, 10 * s.n),
                 IF Contains(t, <<61, 61>>) THEN Rat(-15, 10) ELSE Rat(0, 1))

\* chi_square_english(t) * 3.0 + index_of_coincidence(t) * 2.5
\* + ngram_hits(t) * 1.2 on a text without a letter: chi_square_english
\* returns 0.0 for total == 0, index_of_coincidence 0.0 for n < 2, and no
\* slice of the text is in BIGRAMS, TRIGRAMS or TETRA
LetterSignals(t) == Rat(0, 1)

\* the fitness of lines 179-217, which the later definition replaces: on a text
\* without a letter, a separator or a control character its word, separator,
\* control, snake and tail terms are 0
fitness_damped(t) ==
    LET n == Len(t)
        len_fac == Rat(Min(16, n), 16)
        base == RMul(RAdd(LetterSignals(t), RMul(_charclass_score(t), Rat(13, 10))),
                     len_fac)
        short == RAdd(IF n < 4 THEN Rat(0 - (4 - n) * 2, 1) ELSE Rat(0, 1),
                      IF n <= 2 THEN Rat(-4, 1) ELSE Rat(0, 1))
        all == RAdd(base, short)
    IN IF is_mostly_printable(t) THEN all ELSE RMul(all, Rat(6, 10))

\* the fitness of lines 239-249, the one the name is bound to; snake_from_camel(t)
\* is t.lower() on a text without a letter
fitness(t) ==
    LET s == _char_stats(t)
        base == RAdd(RAdd(LetterSignals(t), RMul(_charclass_score(t), Rat(13, 10))),
                     Rat(s.spaces + s.unders, 10))
    IN IF is_mostly_printable(t) THEN base ELSE RMul(base, Rat(5, 10))

\* ---- the paths of nested decodes ----

\* the number of nested passes followed
MaxHops == 2

\* "->"
Arrow == <<45, 62>>

\* "|nested_b64"
BarNestedB64 == <<124, 110, 101, 115, 116, 101, 100, 95, 98, 54, 52>>

\* the names _decode_once gives its decoders: "hex", "base64", "urlsafe_b64", "a85"
DecoderNames ==
    {<<104, 101, 120>>,
     <<98, 97, 115, 101, 54, 52>>,
     <<117, 114, 108, 115, 97, 102, 101, 95, 98, 54, 52>>,
     <<97, 56, 53>>}

\* the paths base64.run hands to try_decode_string: "raw", "keep_std",
\* "keep_url", "rm_periodic_std[k=3,ph=1]"
Parents64 ==
    {<<114, 97, 119>>,
     <<107, 101, 101, 112, 95, 115, 116, 100>>,
     <<107, 101, 101, 112, 95, 117, 114, 108>>,
     <<114, 109, 95, 112, 101, 114, 105, 111, 100, 105, 99, 95, 115, 116, 100, 91, 107, 61, 51, 44, 112, 104, 61, 49, 93>>}

\* the paths try_decode_b58_token gives a decoded token: "raw|bitcoin",
\* "raw|bitcoin|b58check", "keep_std(drop=0.05)|bitcoin",
\* "rm_periodic(k=5,ph=2,drop=0.19)|bitcoin"
Parents58 ==
    {<<114, 97, 119, 124, 98, 105, 116, 99, 111, 105, 110>>,
     <<114, 97, 119, 124, 98, 105, 116, 99, 111, 105, 110, 124, 98, 53, 56, 99, 104, 101, 99, 107>>,
     <<107, 101, 101, 112, 95, 115, 116, 100, 40, 100, 114, 111, 112, 61, 48, 46, 48, 53, 41, 124, 98, 105, 116, 99, 111, 105, 110>>,
     <<114, 109, 95, 112, 101, 114, 105, 111, 100, 105, 99, 40, 107, 61, 53, 44, 112, 104, 61, 50, 44, 100, 114, 111, 112, 61, 48, 46, 49, 57, 41, 124, 98, 105, 116, 99, 111, 105, 110>>}

\* f"{path}->{name}", then f"{p2}->{name2}" for each further pass: the path
\* followed by the names of the first h + 1 decoders
RECURSIVE Chained(_, _, _)
Chained(path, names, n) ==
    IF n = 0 THEN path
    ELSE Chained(path, names, n - 1) \o Arrow \o names[n]

\* the path of the candidate try_decode_string adds after h nested passes
\* (h = 0: the candidate of the decode itself, under the path it was given)
HopPath64(path, names, h) ==
    IF h = 0 THEN path ELSE Chained(path, names, h + 1)

\* the path of the candidate try_decode_b58_token adds for the decoded token
\* (h = 0) and for its nested Base64 decode (h = 1)
HopPath58(path, h) ==
    IF h = 0 THEN path ELSE path \o BarNestedB64

\* a decode and the nested decodes that follow it: the family, the path of the
\* first candidate and the decoders that succeeded, one per pass
Chains ==
    {[family |-> "base64", path |-> p, names |-> n] :
        p \in Parents64,
        n \in {s \in SeqsUpTo(DecoderNames, MaxHops + 1) : Len(s) >= 2}}
    \cup {[family |-> "base58", path |-> p, names |-> n] :
            p \in Parents58,
            n \in {<<d>> : d \in DecoderNames}}

\* the paths of the candidates of a chain, the first candidate first
HopPaths(c) ==
    IF c.family = "base58"
    THEN <<HopPath58(c.path, 0), HopPath58(c.path, 1)>>
    ELSE [i \in 1..Len(c.names) |-> HopPath64(c.path, c.names, i - 1)]

\* ---- the drop ratio of a stripped token ----

\* the longest normalized ciphertext a token is stripped from
MaxSrc == 6

\* drop = 1.0 - (len(keep)/max(1,len(src))), from the two lengths
drop_ratio(keep, src) == Rat(Max(1, src) - keep, Max(1, src))

\* the drop_ratio argument _add / _add_candidate is called with: base45, base64
\* and base91 pass the drop ratio of the token; try_decode_b58_token passes 0.0
\* and keeps the ratio in the tag only
drop_passed(family, keep, src) ==
    IF family = "base58" THEN Rat(0, 1) ELSE drop_ratio(keep, src)

\* min(2.0, drop_ratio * 3.0), the amount _add / _add_candidate subtracts
drop_penalty(d) ==
    LET p == RMul(d, Rat(3, 1))
    IN IF RLess(Rat(2, 1), p) THEN Rat(2, 1) ELSE p

\* a token of keep characters stripped from a ciphertext of src characters
Stripped ==
    {x \in [keep : 1..MaxSrc, src : 1..MaxSrc] : x.keep <= x.src}

-----------------------------------------------------------------------------
(* fitness called on two texts, and _path_penalty on two paths of a family *)

\* the longest text scored
MaxScored == 4

\* "-", "1", "="
ScoredChars == {45, 49, 61}

ScoredTexts == SeqsUpTo(ScoredChars, MaxScored)

InitScore ==
    /\ NoMain
    /\ NoRun
    /\ \/ /\ stage = "texts"
          /\ arg \in [t : ScoredTexts, u : ScoredTexts]
       \/ /\ stage = "paths"
          /\ arg \in {a \in [p : Provenances, q : Provenances] :
                        a.p.family = a.q.family}
       \/ /\ stage = "chain"
          /\ arg \in Chains
       \/ /\ stage = "tokens"
          /\ arg \in [family : {"base45", "base58", "base64", "base91"},
                      a : Stripped, b : Stripped]
    /\ ret = <<>>

Score ==
    /\ stage = "texts"
    /\ stage' = "scored"
    /\ ret' = [t |-> fitness(arg.t), u |-> fitness(arg.u)]
    /\ UNCHANGED <<arg, clock>>
    /\ UNCHANGED mainvars
    /\ UNCHANGED runvars

Penalize ==
    /\ stage = "paths"
    /\ stage' = "penalized"
    /\ ret' = [p |-> _path_penalty(arg.p.family, arg.p.path),
               q |-> _path_penalty(arg.q.family, arg.q.path)]
    /\ UNCHANGED <<arg, clock>>
    /\ UNCHANGED mainvars
    /\ UNCHANGED runvars

\* _add_candidate on the candidates of a chain: the penalty of each path
Nest ==
    /\ stage = "chain"
    /\ stage' = "nested"
    /\ ret' = [i \in 1..Len(HopPaths(arg)) |->
                  _path_penalty(arg.family, HopPaths(arg)[i])]
    /\ UNCHANGED <<arg, clock>>
    /\ UNCHANGED mainvars
    /\ UNCHANGED runvars

\* _add / _add_candidate on the decoded texts of two stripped tokens: the
\* amount subtracted for the drop ratio
Drop ==
    /\ stage = "tokens"
    /\ stage' = "dropped"
    /\ ret' = [a |-> drop_penalty(drop_passed(arg.family, arg.a.keep, arg.a.src)),
               b |-> drop_penalty(drop_passed(arg.family, arg.b.keep, arg.b.src))]
    /\ UNCHANGED <<arg, clock>>
    /\ UNCHANGED mainvars
    /\ UNCHANGED runvars

NextScore == Score \/ Penalize \/ Nest \/ Drop

SpecScore == InitScore /\ [][NextScore]_vars

-----------------------------------------------------------------------------
(* Properties of the orchestrator and of the ranking pipeline *)

Ranked == pc \in {"ranked", "reranked"}

TextsOf(s) == {s[i].text : i \in 1..Len(s)}
AlgosOf(s) == {s[i].algo : i \in 1..Len(s)}
CountAlgo(s, a) == Cardinality({i \in 1..Len(s) : s[i].algo = a})
NonIncreasing(s) == \A i \in 1..(Len(s) - 1) : s[i].score >= s[i + 1].score

\* the positions of results that carry text t
SameText(t) == {i \in 1..Len(results) : results[i].text = t}
\* the first position among those of the highest score for text t
FirstBest(t) ==
    CHOOSE i \in SameText(t) :
        /\ \A j \in SameText(t) : results[j].score <= results[i].score
        /\ \A j \in SameText(t) : results[j].score = results[i].score => i <= j

\* C1: after dedupe_and_rank every distinct text of the collected candidates
\* appears exactly once, and the candidate kept for a text is the first one, in
\* input order, among those of the highest score for that text.
C1_DedupeKeepsFirstBest ==
    Ranked =>
        /\ TextsOf(ranked_all) = TextsOf(results)
        /\ \A t \in TextsOf(results) :
              /\ Cardinality({j \in 1..Len(ranked_all) : ranked_all[j].text = t}) = 1
              /\ \E j \in 1..Len(ranked_all) : ranked_all[j] = results[FirstBest(t)]

\* a text seen three times: a lower score first, then the highest score twice
C1_Witness ==
    /\ Ranked
    /\ \E i, j, k \in 1..Len(results) :
          /\ i < j /\ j < k
          /\ results[i].text = results[j].text /\ results[j].text = results[k].text
          /\ results[i].score < results[j].score
          /\ results[j].score = results[k].score
          /\ results[j].algo # results[k].algo

\* the first S entries of a list hold one candidate of each algo of A, in
\* non-increasing score order
OnePerAlgoInFront(list, A) ==
    LET S == Cardinality(A)
    IN /\ Len(list) >= S
       /\ \A a \in A : Cardinality({i \in 1..S : list[i].algo = a}) = 1
       /\ \A i \in 1..(S - 1) : list[i].score >= list[i + 1].score

\* C2 as stated: with promotion enabled and at least one candidate produced, the
\* first S entries of the final list hold one candidate per strategy that
\* produced output in the run, in descending score order.
C2_DiversityOverProducers ==
    (Ranked /\ cfg.ensure_each_algo_top1 /\ Len(results) > 0) =>
        OnePerAlgoInFront(ranked_final, AlgosOf(results))

\* C2 as amended: the first S entries of the list promotion returns hold one
\* candidate per strategy that still has a candidate after the global dedupe, in
\* non-increasing score order (S = number of such strategies).
C2_DiversityOverSurvivors ==
    (Ranked /\ cfg.ensure_each_algo_top1 /\ Len(results) > 0) =>
        OnePerAlgoInFront(ranked_final, AlgosOf(ranked_all))

\* promotion moved a seed: two or more strategies survive the dedupe and the
\* globally sorted list does not have one of each in front
C2_Witness ==
    /\ Ranked /\ cfg.ensure_each_algo_top1
    /\ Cardinality(AlgosOf(ranked_all)) >= 2
    /\ ~ OnePerAlgoInFront(capped, AlgosOf(ranked_all))
    /\ ranked_final # capped

CapHolds(list) == \A a \in Algos : CountAlgo(list, a) <= cfg.per_algo_cap

\* C3 as stated: for every configured per_algo_cap no strategy has more than
\* per_algo_cap entries in the capped list, nor in the final list.
C3_CapForEveryValue ==
    Ranked => (CapHolds(capped) /\ CapHolds(ranked_final))

\* C3 as amended: for every per_algo_cap > 0 no strategy has more than
\* per_algo_cap entries in the capped list, nor in the final list; with
\* per_algo_cap <= 0 main skips the cap step and the capped list is the whole
\* deduplicated list.
C3_CapForPositiveValues ==
    /\ (Ranked /\ cfg.per_algo_cap > 0) => (CapHolds(capped) /\ CapHolds(ranked_final))
    /\ (Ranked /\ cfg.per_algo_cap <= 0) => capped = ranked_all

\* the cap removed a candidate
C3_Witness ==
    /\ Ranked /\ cfg.per_algo_cap > 0
    /\ \E a \in Algos : CountAlgo(ranked_all, a) > cfg.per_algo_cap
    /\ Len(capped) < Len(ranked_all)

\* C4 as stated: the pipeline (dedupe, sort, cap, promotion, truncation) applied
\* to the list it produced, with the same cap, flag and display count, returns
\* that list unchanged and in the same order, whatever the display count.
C4_PipelineIdempotent ==
    pc = "reranked" => rerun = shown

\* C4 as amended: for every display count top_k >= 0 the pipeline applied to
\* the list it produced, with the same cap, flag and display count, returns that
\* list unchanged and in the same order (cands[:top_k] with a negative top_k
\* drops the tail of the list again on every pass).
C4_IdempotentForCounts ==
    (pc = "reranked" /\ cfg.top_k >= 0) => rerun = shown

\* a list that promotion took out of score order, with a tie in it
C4_Witness ==
    /\ pc = "reranked"
    /\ cfg.top_k >= 0
    /\ ~ NonIncreasing(shown)
    /\ Len(shown) >= 3
    /\ \E i, j \in 1..Len(shown) : i # j /\ shown[i].score = shown[j].score

BucketOf(a) ==
    LET HasAlgo(c) == c.algo = a IN SelectSeq(ranked_all, HasAlgo)

\* C5: dedupe_and_rank returns the candidates in non-increasing score order,
\* every bucket holds the candidates of its algo in the order they have in that
\* list, and so the first element of a bucket has the highest score of its algo.
C5_SortedAndBucketsInOrder ==
    Ranked =>
        /\ NonIncreasing(ranked_all)
        /\ {buckets[b].algo : b \in 1..Len(buckets)} = AlgosOf(ranked_all)
        /\ \A b \in 1..Len(buckets) :
              /\ buckets[b].items = BucketOf(buckets[b].algo)
              /\ \A c \in 1..Len(buckets) : buckets[c].algo = buckets[b].algo => c = b
              /\ \A i \in 1..Len(ranked_all) :
                    ranked_all[i].algo = buckets[b].algo
                        => ranked_all[i].score <= buckets[b].items[1].score

\* candidates collected out of score order, and a bucket of two
C5_Witness ==
    /\ Ranked
    /\ ~ NonIncreasing(results)
    /\ \E b \in 1..Len(buckets) : Len(buckets[b].items) >= 2
    /\ Len(buckets) >= 2

Attempted == Range(launched) \cup skipped
NeverExceeded == last_elapsed <= cfg.total_budget_s

C6_State ==
    \* the faulty strategies contributed nothing
    /\ \A m \in faulted : AlgoOf(m) \notin AlgosOf(results)
    \* while the budget holds every module up to the loop's position was attempted
    /\ Cardinality(Attempted) = idx - 1
    /\ (pc # "loop" /\ NeverExceeded) => \A i \in 1..Len(Active) : Active[i] \in Attempted
    \* the loop is never stuck: it steps until it leaves for the ranking step
    /\ pc = "loop" => (idx <= Len(Active) /\ ENABLED (ImportFails \/ RunRaises \/ RunReturns))

C6_Step ==
    \* a raise keeps what was collected and leaves the loop running or ranks
    /\ faulted' # faulted => (results' = results /\ pc' \in {"loop", "rank"})
    \* candidates are only ever appended
    /\ Len(results') >= Len(results)
    /\ SubSeq(results', 1, Len(results)) = results
    \* every loop step moves on in the active list, to the ranking step at the end
    /\ pc = "loop" => (idx' = idx + 1 /\ pc' \in {"loop", "rank"})
    /\ (pc = "loop" /\ idx = Len(Active)) => pc' = "rank"

\* C6: when a strategy's run raises, the candidates collected so far are kept,
\* the faulty strategy contributes none, the later strategies of the active list
\* are still attempted while the budget is not exceeded, and the loop always
\* ends in the ranking step.
C6_FaultIsolation == []C6_State /\ [][C6_Step]_vars

\* the first strategy raised, and the one after it ran and contributed
C6_Witness ==
    /\ Ranked
    /\ Len(launched) = 2
    /\ faulted = {launched[1]}
    /\ AlgoOf(launched[2]) \in AlgosOf(ranked_all)

\* C7: once a budget check after a strategy found the elapsed time above the
\* global budget, no further strategy is launched, and the candidates collected
\* up to then are the ones the ranking step ranks.
C7_GlobalBudgetStops ==
    /\ [](~ NeverExceeded => pc # "loop")
    /\ [][launched' # launched => NeverExceeded]_vars
    /\ [][~ NeverExceeded => (results' = results /\ launched' = launched)]_vars
    /\ []((Ranked /\ ~ NeverExceeded) => TextsOf(ranked_all) = TextsOf(results))

\* the budget was exceeded after the first strategy, which had produced output
C7_Witness ==
    /\ Ranked
    /\ ~ NeverExceeded
    /\ Len(launched) = 1 /\ skipped = {}
    /\ Len(ranked_all) > 0

-----------------------------------------------------------------------------
(* Properties of the budgets *)

\* the elapsed run time a clock reading stands for
GlobalElapsed(now) == now - started_all

\* C8 as stated: when the global budget is smaller than the strategy's budget_s,
\* a strategy that started within the global budget appends, in its loops, no
\* candidate once the elapsed run time it reads is past the global budget.
C8_SmallerBudgetStopsWork ==
    [][(/\ run_pc # "call"
        /\ GlobalElapsed(started) <= cfg.total_budget_s
        /\ cfg.total_budget_s < rcfg.budget_s
        /\ GlobalElapsed(clock') > cfg.total_budget_s) => run_results' = run_results]_vars

\* C9 as stated: with budget_s = 0 a run that returns, returns an empty list or
\* a list of one candidate, whatever the clock reads.
C9_ZeroBudgetAtMostOne ==
    (run_pc = "returned" /\ rcfg.budget_s = 0) => Len(run_results) <= 1

\* C10: within one run the results list only grows; the budget check that finds
\* the budget exceeded appends nothing and raises nothing, and no candidate is
\* appended after it; the list the run returns is a prefix of the list the same
\* call returns when no check finds the budget exceeded.
C10_NoLossOnBudgetExhaustion ==
    /\ [][IsPrefix(run_results, run_results')]_vars
    /\ [][timed_out' => (run_results' = run_results /\ run_pc' # "raised")]_vars
    /\ []((run_pc = "returned" /\ ~ UnlimitedRaises) => IsPrefix(run_results, Unlimited))

\* base64.run returned after a budget check cut it short: it had candidates,
\* and fewer than the same call without a timeout
C10_Witness ==
    /\ strat = "base64"
    /\ run_pc = "returned"
    /\ timed_out
    /\ Len(run_results) > 0
    /\ Len(run_results) < Len(Unlimited)

-----------------------------------------------------------------------------
(* Properties of the single calls *)

\* the override o with each placeholder replaced by c, placeholder by placeholder
RECURSIVE Substituted(_, _, _)
Substituted(o, c, i) ==
    IF i > Len(o) THEN <<>>
    ELSE IF i < Len(o) /\ o[i] = 37 /\ o[i + 1] = 99 THEN c \o Substituted(o, c, i + 2)
    ELSE <<o[i]>> \o Substituted(o, c, i + 1)

\* C11 as stated: a strategy configured with a text_to_decipher string deciphers
\* that string with each %c replaced by the real ciphertext; started through
\* main with text_to_decipher = "%c" it deciphers exactly the ciphertext.
C11_OverrideDeciphersCiphertext ==
    (stage = "deciphering" /\ arg.text_to_decipher.is_str) =>
        /\ ret.deciphers = Substituted(arg.text_to_decipher.s, arg.ciphertext, 1)
        /\ (ret.via = "main" /\ arg.text_to_decipher.s = Placeholder)
               => ret.deciphers = arg.ciphertext

\* C13: b45decode applied to the RFC 9285 encoding of a byte string returns
\* exactly that byte string (two bytes in three symbols, a last single byte in
\* two).
C13_Base45RoundTrip ==
    (stage = "decoded" /\ arg.family = "base45") => ret = Returned(arg.bytes)

\* a byte string of odd length, two or more bytes, has been decoded
C13_Witness ==
    /\ stage = "decoded" /\ arg.family = "base45"
    /\ Len(arg.bytes) = 3 /\ Len(arg.symbols) = 5
    /\ arg.bytes[1] = 255 /\ arg.bytes[2] = 97
    /\ ~ret.raised

\* C14: b58_decode_to_bytes applied to the Base58 encoding of a byte string, in
\* each supported alphabet, returns exactly that byte string, and the output
\* starts with as many zero bytes as the input starts with alphabet[0] symbols.
C14_Base58RoundTrip ==
    (stage = "decoded" /\ arg.family = "base58") =>
        /\ ret = Returned(arg.bytes)
        /\ LeadingZeros(ret.out, 0)
             = LeadingZeros(arg.symbols, ALPHABETS[arg.alphabet][1])

\* a byte string that starts with two zero bytes has been decoded in the ripple
\* alphabet
C14_Witness ==
    /\ stage = "decoded" /\ arg.family = "base58" /\ arg.alphabet = "ripple"
    /\ Len(arg.bytes) = 3 /\ arg.bytes[1] = 0 /\ arg.bytes[2] = 0 /\ arg.bytes[3] = 255
    /\ LeadingZeros(arg.symbols, 114) = 2
    /\ ~ret.raised

\* C16: b91decode applied to the basE91 encoding of a byte string returns
\* exactly that byte string, also when the encoding has an odd number of
\* symbols and the decoder flushes its last symbol as one byte.
C16_Base91RoundTrip ==
    (stage = "decoded" /\ arg.family = "base91") => ret = Returned(arg.bytes)

\* an encoding of three symbols has been decoded to its two bytes
C16_Witness ==
    /\ stage = "decoded" /\ arg.family = "base91"
    /\ Len(arg.symbols) = 3 /\ Len(arg.bytes) = 2
    /\ ~ret.raised /\ Len(ret.out) = 2

\* the symbols of tok are in the Base45 alphabet
InAlphabet45(tok) == \A i \in 1..Len(tok) : tok[i] \in Range(ALPHABET_b45)

\* the value of the group of symbols i..j of tok, the first symbol the lowest
GroupValue(tok, i, j) ==
    A2I(tok[i]) + 45 * A2I(tok[i + 1]) + (IF j = i + 2 THEN 2025 * A2I(tok[j]) ELSE 0)

\* the Base45 decoder has to reject tok: a symbol outside the alphabet, a
\* dangling single symbol, a 3-group above 0xFFFF or a last 2-group above 0xFF
Rejected45(tok) ==
    \/ ~InAlphabet45(tok)
    \/ Len(tok) % 3 = 1
    \/ \E g \in 0..((Len(tok) \div 3) - 1) : GroupValue(tok, 3 * g + 1, 3 * g + 3) > 65535
    \/ Len(tok) % 3 = 2 /\ GroupValue(tok, Len(tok) - 1, Len(tok)) > 255

\* the tokens base45.run has to try on src when its budget does not run out
Planned45(src, c) ==
    {src}
    \cup {t \in {_strip_to_allowed(src, Range(ALPHABET_b45))} :
            Len(t) >= c.min_token_len}
    \cup {t \in {_strip_to_allowed(Cleaned(src, k, ph), Range(ALPHABET_b45)) :
                    k \in 2..(Max(3, c.periodic_max_k + 1) - 1),
                    ph \in 0..(Max(3, c.periodic_max_k + 1) - 2)} :
            Len(t) >= c.min_token_len}
    \cup (IF c.scan_substrings
          THEN {SubSeq(src, m.a + 1, m.b) : m \in Range(Finditer45(src, 0))}
          ELSE {})

\* the candidates of a run that came from the attempt with this tag
From(tag) == {i \in 1..Len(run_results) : run_results[i].params = tag}

\* the alphabets of the config, as base58.run hands them to the decoder
RawIn(tok, aname) == b58_decode_to_bytes(tok, AlphabetOf(aname))

\* C12: a token the decoder rejects (a symbol outside the alphabet, a dangling
\* single Base45 symbol, a 3-group above 0xFFFF, a 2-group above 0xFF, a
\* Base58Check checksum that does not match) gives no candidate, the run raises
\* nothing, and its remaining attempts are still made.
C12_DecodeFailureNotFatal ==
    /\ run_pc # "raised"
    /\ strat = "base45" =>
         /\ \A i \in 1..Len(ret.attempted) :
                Rejected45(ret.attempted[i].tok) => From(ret.attempted[i].tag) = {}
         /\ (run_pc = "returned" /\ ~timed_out) =>
                Planned45(_normalize(ciphertext), rcfg) \subseteq ret.tried
    /\ strat = "base58" =>
         /\ \A i \in 1..Len(ret.attempted) : \A a \in Range(rcfg.alphabets) :
              LET at == ret.attempted[i]
                  raw == RawIn(at.tok, a)
                  here(check) ==
                      {j \in 1..Len(run_results) :
                          run_results[j].params = [tag |-> at.tag, aname |-> a,
                                                   check |-> check]}
              IN /\ raw.raised => (here("none") = {} /\ here("b58check") = {})
                 /\ (~raw.raised /\ ~b58check_strip_and_verify(raw.out).ok)
                        => here("b58check") = {}
         /\ (run_pc = "returned" /\ ~timed_out) =>
              /\ _normalize(ciphertext) \in ret.tried
              /\ LET keep == _strip_to_allowed(_normalize(ciphertext), Range(B58_STD))
                 IN Len(keep) >= rcfg.min_token_len => keep \in ret.tried

\* a base45 run returned: its first token was rejected and a later token gave
\* a candidate
C12_Witness ==
    /\ strat = "base45" /\ run_pc = "returned"
    /\ Len(ret.attempted) >= 2
    /\ Rejected45(ret.attempted[1].tok)
    /\ \E i \in 2..Len(ret.attempted) : From(ret.attempted[i].tag) # {}

\* C15 as stated: for any payload, the payload followed by the first four bytes
\* of its double hash verifies, b58check_strip_and_verify returning (true,
\* payload). The payload of no bytes does not verify.
C15_ChecksumVerifies ==
    (stage = "decoded" /\ arg.family = "b58check") =>
        ret = [ok |-> TRUE, payload |-> arg.bytes]

\* a candidate marked b58check stems from bytes whose checksum verifies
OnlyVerifiedIsEmitted ==
    strat = "base58" =>
        \A j \in 1..Len(run_results) :
            run_results[j].params.check = "b58check" =>
                \E i \in 1..Len(ret.attempted) :
                    /\ ret.attempted[i].tag = run_results[j].params.tag
                    /\ LET v == b58check_strip_and_verify(
                                    RawIn(ret.attempted[i].tok,
                                          run_results[j].params.aname).out)
                       IN v.ok /\ utf8_ignore(v.payload) = run_results[j].text

\* for a payload of one byte or more, the payload and its checksum verify
NonEmptyPayloadVerifies ==
    (stage = "decoded" /\ arg.family = "b58check" /\ arg.bytes # <<>>) =>
        ret = [ok |-> TRUE, payload |-> arg.bytes]

\* ch moved k letters on in the alphabet of its case when it is an ASCII
\* letter, and ch itself otherwise
Moved(ch, k) ==
    IF ch \in 97..122 THEN 97 + ((ch - 97 + k) % 26)
    ELSE IF ch \in 65..90 THEN 65 + ((ch - 65 + k) % 26)
    ELSE ch

\* "Uryyb, Jbeyq!" and "Hello, World!"
Uryyb == <<85, 114, 121, 121, 98, 44, 32, 74, 98, 101, 121, 113, 33>>
Hello == <<72, 101, 108, 108, 111, 44, 32, 87, 111, 114, 108, 100, 33>>

\* C17 as stated: for a shift k the rotN strategy returns a text as long as the
\* input, each ASCII letter replaced by the letter k earlier in its case and
\* every other character unchanged; shift 13 maps "Uryyb, Jbeyq!" to
\* "Hello, World!", shift 0 changes nothing, and n = "all" returns the 26 shifts
\* 0..25 in order when the budget does not run out.
C17_RotNShiftsLetters ==
    /\ _rotN(Uryyb, 13) = Hello
    /\ (strat = "rot13" /\ run_pc \in {"returned", "raised"}) =>
         /\ run_pc = "returned"
         /\ \A i \in 1..Len(run_results) :
              /\ run_results[i].text
                   = [p \in 1..Len(ciphertext) |->
                         Moved(ciphertext[p], 0 - run_results[i].params)]
              /\ run_results[i].params = 0 => run_results[i].text = ciphertext
         /\ IF rcfg.n.all
            THEN ~timed_out =>
                   /\ Len(run_results) = 26
                   /\ \A i \in 1..26 : run_results[i].params = i - 1
            ELSE /\ Len(run_results) = 1
                 /\ run_results[1].params = rcfg.n.n % 26

\* the same for the ciphertexts of ASCII characters only
RotNShiftsAscii ==
    (\A p \in 1..Len(ciphertext) : ciphertext[p] < 128) => C17_RotNShiftsLetters

\* the shift of the character at position p (from 1) of a string of n characters
ShiftAt(p, n) ==
    LET j == IF arg.order = "LTR" THEN p - 1 ELSE n - p
    IN (arg.start_key + j * arg.step) % 26

\* C18 as stated: the character at logical position j (from the start for LTR,
\* from the end for RTL) is shifted by (start_key + j*step) mod 26, the other
\* way round to decode, letters only and in their case; so for every string,
\* start key, step and direction, decoding the encoding gives back the string.
C18_ProgressiveRoundTrip ==
    /\ stage # "raised"
    /\ stage \in {"encoded", "decoded"} =>
         ret.encoded = [p \in 1..Len(arg.s) |->
                           Moved(arg.s[p], ShiftAt(p, Len(arg.s)))]
    /\ stage = "decoded" =>
         /\ ret.decoded = [p \in 1..Len(arg.s) |->
                              Moved(ret.encoded[p], 0 - ShiftAt(p, Len(arg.s)))]
         /\ ret.decoded = arg.s

\* the same for the strings of ASCII characters only
ProgressiveRoundTripAscii ==
    (\A p \in 1..Len(arg.s) : arg.s[p] < 128) => C18_ProgressiveRoundTrip

\* the frequency, IC, n-gram and class signals of t as the score weighs them,
\* scaled by min(1, length/16)
DampedSignals(t) ==
    RMul(RAdd(LetterSignals(t), RMul(_charclass_score(t), Rat(13, 10))),
         Rat(Min(16, Len(t)), 16))

\* what the score of t is below its damped signals
Penalty(t, score) == RAdd(DampedSignals(t), Rat(0 - score.num, score.den))

\* C19 as stated: modules.common.fitness scales the frequency, IC, n-gram and
\* class signals by min(1, length/16) and subtracts a flat penalty from a text
\* shorter than 4 characters, a larger one from a text of at most 2. (The texts
\* scored have no letter, separator or control character, so the score has no
\* other term.)
C19_LengthDamping ==
    stage = "scored" =>
        /\ Len(arg.t) >= 4 => REq(ret.t, DampedSignals(arg.t))
        /\ Len(arg.t) < 4 => RLess(ret.t, DampedSignals(arg.t))
        /\ (Len(arg.t) <= 2 /\ Len(arg.u) = 3) =>
               RLess(Penalty(arg.u, ret.u), Penalty(arg.t, ret.t))

\* C20 as stated: in every family a raw provenance has penalty zero, a
\* keep-only or single-character-removal provenance a positive penalty, and a
\* periodic or combinatorial removal provenance a strictly larger penalty than
\* those.
C20_PenaltyOrdering ==
    stage = "penalized" =>
        /\ arg.p.kind = "raw" => ret.p = 0
        /\ arg.p.kind \in {"keep", "single"} => ret.p > 0
        /\ (arg.p.kind \in {"keep", "single"} /\ arg.q.kind \in {"periodic", "combo"})
               => ret.q > ret.p

\* the same without the removals of one character
PenaltyOrderingKeepOnly ==
    (stage = "penalized" /\ arg.p.kind # "single" /\ arg.q.kind # "single")
        => C20_PenaltyOrdering

\* c has a candidate of its own strategy before it in the list: promotion leaves
\* it where it is
NotPromoted(list, c) ==
    \E i, j \in 1..Len(list) :
        i < j /\ list[j] = c /\ list[i].algo = c.algo

Unpromoted(list) ==
    LET Stays(c) == NotPromoted(capped, c) IN SelectSeq(list, Stays)

SweepProducedNothing ==
    \/ Len(Combos(rcfg)) = 0
    \/ (timed_out /\ it = 1)

\* C25 as stated: a super_rot run whose sweep produced no candidate returns
\* exactly the one fallback candidate (start 9, step +1, LTR, decode), also
\* when the first budget check finds the budget exceeded, so that no run of
\* super_rot returns an empty list.
C25_FallbackNeverEmpty ==
    (strat = "super_rot" /\ run_pc = "returned") =>
        /\ run_results # <<>>
        /\ SweepProducedNothing => run_results = <<SuperRotFallback(ciphertext)>>

\* the same for the runs in which no budget check found the budget exceeded
FallbackWhenSweepEnds ==
    (strat = "super_rot" /\ run_pc = "returned" /\ ~ timed_out) =>
        /\ run_results # <<>>
        /\ Len(Combos(rcfg)) = 0 => run_results = <<SuperRotFallback(ciphertext)>>

\* C27 as stated: shift_char returns a character for every character and every
\* shift, an ASCII letter moved within its case and every other character
\* unchanged, so that no run of rot13 or super_rot ends by raising.
C27_ShiftCharTotal ==
    (strat \in {"rot13", "super_rot"} /\ run_pc \in {"returned", "raised"}) =>
        /\ run_pc = "returned"
        /\ \A p \in 1..Len(ciphertext), k \in (0 - 27)..27 :
               shift_char(ciphertext[p], k) = Moved(ciphertext[p], k)

\* the same for the ciphertexts of ASCII characters only
ShiftCharTotalAscii ==
    (\A p \in 1..Len(ciphertext) : ciphertext[p] < 128) => C27_ShiftCharTotal

\* C21 as stated: the candidate of a nested decode has a strictly larger path
\* penalty than the candidate it was decoded from, at every hop of the chain.
C21_NestedHopAddsPenalty ==
    stage = "nested" =>
        \A h \in 2..Len(ret) : ret[h] > ret[h - 1]

\* a nested decode is never charged less than the candidate it came from, and
\* the nested Base64 decode of base58 is charged more
NestedNeverCheaper ==
    stage = "nested" =>
        /\ \A h \in 2..Len(ret) : ret[h] >= ret[h - 1]
        /\ arg.family = "base58" => ret[2] > ret[1]

\* C22 as stated: in every family the amount subtracted for the drop ratio
\* does not decrease when the fraction of characters dropped grows, and of two
\* stripped tokens the one with the higher drop ratio is charged strictly more
\* when its charge is below the cap of 2.0.
C22_DropRatioPenalty ==
    stage = "dropped" =>
        LET da == drop_ratio(arg.a.keep, arg.a.src)
            db == drop_ratio(arg.b.keep, arg.b.src)
        IN /\ ~ RLess(db, da) => ~ RLess(ret.b, ret.a)
           /\ (RLess(da, db) /\ RLess(RMul(db, Rat(3, 1)), Rat(2, 1)))
                  => RLess(ret.a, ret.b)

\* the same for base45, base64 and base91
DropRatioPenaltyWhenPassed ==
    (stage = "dropped" /\ arg.family # "base58") => C22_DropRatioPenalty

\* the text a Base45 string decodes to
PlainOf(s) == utf8_ignore(b45decode(s).out)

\* the candidates of the periodic removal with period k that carry text t
RecoveredAt(k, t) ==
    {i \in 1..Len(run_results) :
        /\ run_results[i].params.kind = "rm_periodic"
        /\ run_results[i].params.k = k
        /\ run_results[i].text = t}

\* C23 as stated: on a valid Base45 string with a punctuation character
\* inserted at every fifth place, base45.run with its defaults and time left
\* returns a candidate of the periodic removal with k = 5 whose text is the
\* decoding of the original string; and the run tries, for every k in
\* 2..periodic_max_k and every phase, the input without the characters at the
\* indices i with i mod k = phase, stripped to the alphabet (when that leaves
\* min_token_len characters or more).
C23_PeriodicJunkRecovered ==
    (strat = "base45" /\ stage = "noisy" /\ run_pc = "returned" /\ ~timed_out) =>
        /\ RecoveredAt(5, PlainOf(arg.orig)) # {}
        /\ \A k \in 2..rcfg.periodic_max_k : \A ph \in 0..(k - 1) :
             LET t == _strip_to_allowed(Cleaned(_normalize(ciphertext), k, ph),
                                        Range(ALPHABET_b45))
             IN Len(t) >= rcfg.min_token_len => t \in ret.tried

\* the same for the strings that do not begin with a space and a junk character
\* of the Base45 alphabet
PeriodicJunkRecoveredInAlphabet ==
    (/\ stage = "noisy"
     /\ ~ isspace(Head(arg.orig))
     /\ arg.junk \in Range(ALPHABET_b45)) => C23_PeriodicJunkRecovered

\* a string that does not begin with a space is recovered whatever the junk
\* character, by the keep-only attempt if not by the periodic removal
PeriodicJunkTextRecovered ==
    (/\ strat = "base45" /\ stage = "noisy" /\ run_pc = "returned" /\ ~timed_out
     /\ ~ isspace(Head(arg.orig)))
        => \E i \in 1..Len(run_results) :
               /\ run_results[i].text = PlainOf(arg.orig)
               /\ run_results[i].params.kind \in {"keep_only", "rm_periodic"}

\* C24 as stated: every span the scan of base45.run hands to the decoder is a
\* maximal run of alphabet characters of at least the minimum length: it lies
\* in the alphabet, and the character before its start and the character after
\* its end, when there is one, are outside the alphabet.
C24_ScanTakesMaximalRuns ==
    strat = "base45" =>
        \A i \in 1..Len(ret.attempted) :
            LET at == ret.attempted[i]
                src == _normalize(ciphertext)
            IN at.tag.kind = "scan" =>
                 /\ at.tok = SubSeq(src, at.tag.a + 1, at.tag.b)
                 /\ InAlphabet45(at.tok)
                 /\ Len(at.tok) >= 6
                 /\ at.tag.b < Len(src) => src[at.tag.b + 1] \notin Range(ALPHABET_b45)
                 /\ at.tag.a > 0 => src[at.tag.a] \notin Range(ALPHABET_b45)

\* the same without the character before the start
ScanRunsReachTheirEnd ==
    strat = "base45" =>
        \A i \in 1..Len(ret.attempted) :
            LET at == ret.attempted[i]
                src == _normalize(ciphertext)
            IN at.tag.kind = "scan" =>
                 /\ at.tok = SubSeq(src, at.tag.a + 1, at.tag.b)
                 /\ InAlphabet45(at.tok)
                 /\ Len(at.tok) >= 6
                 /\ at.tag.b < Len(src) => src[at.tag.b + 1] \notin Range(ALPHABET_b45)

====
